---------------------------- MODULE Spec2Model ----------------------------
(***************************************************************************)
(* StockGuard backend: the WebSocket notification layer                    *)
(* (backend/app/websockets.py) and the handlers of backend/app/main.py     *)
(* that use it.                                                            *)
(*                                                                         *)
(* asyncio runs one coroutine at a time and switches only at an await, so  *)
(* every action below is the code between two suspension points.  An       *)
(* `async with lock:` is two actions, the acquisition and the body with    *)
(* the release: the acquisition is an await, and the bodies contain none.  *)
(***************************************************************************)
EXTENDS Integers, Sequences, FiniteSets, TLC

\* ------------------------------------------------------------------ bounds
MaxCalls == 4          \* connect/disconnect calls of the free-form API in a run
MaxBroadcasts == 2     \* broadcast calls of the free-form API in a run
MaxClock == 2          \* readings of datetime.now() are 0..MaxClock
MaxQuantity == 1       \* quantities and thresholds of a request are 0..MaxQuantity
MaxRequests == 2       \* HTTP requests in a run
MaxTicks == 2          \* iterations of the heartbeat loop in a run

Conns == {"A", "B", "C"}          \* the WebSocket objects of a run

Free == <<"free", 0>>             \* an asyncio.Lock nobody holds
None == "None"

VARIABLES
    status,              \* ServerStatus._status
    timestamp,           \* ServerStatus._timestamp
    connected_clients,   \* ServerStatus._connected_clients
    status_lock,         \* ServerStatus._lock: Free or the task holding it
    active_connections,  \* ConnectionManager.active_connections
    lock,                \* ConnectionManager._lock: Free or the task holding it
    clock,               \* datetime.now()
    ws_state,            \* WebSocket.application_state of every connection
    inbox,               \* per connection, the broadcasts on record whose send_json succeeded
    calls,               \* the connect/disconnect calls: one frame per task
    ncalls,              \* free-form calls started so far
    bcast,               \* the broadcast calls: one frame per call in flight
    nbcast,              \* free-form broadcast calls started so far
    products,            \* the rows of table products, by id
    categories,          \* the rows of table categories, by id
    next_category_id,    \* the next value of the sequence of categories.id
    next_product_id,     \* the next value of the sequence of products.id
    handlers,            \* the HTTP requests: one frame per request in flight
    nrequests,           \* HTTP requests started so far
    heartbeat,           \* the task of broadcast_server_status
    updater              \* the update_status call in flight

vars == <<status, timestamp, connected_clients, status_lock, active_connections,
          lock, clock, ws_state, inbox, calls, ncalls, bcast, nbcast,
          products, categories, next_product_id, next_category_id, handlers, nrequests, heartbeat, updater>>

statusVars == <<status, timestamp, connected_clients, status_lock>>
bcastVars == <<bcast, nbcast, inbox>>
dbVars == <<products, categories, next_product_id, next_category_id>>
crudVars == <<dbVars, handlers, nrequests>>
hbVars == <<heartbeat, updater>>

\* ----------------------------------------------------------------- helpers
Range(s) == {s[i] : i \in 1..Len(s)}

Max(a, b) == IF a >= b THEN a ELSE b

\* list.remove(x): drops the first occurrence of x
RECURSIVE ListRemove(_, _)
ListRemove(s, x) ==
    IF s = <<>> THEN <<>>
    ELSE IF Head(s) = x THEN Tail(s)
    ELSE <<Head(s)>> \o ListRemove(Tail(s), x)

\* how many times x occurs in s
RECURSIVE Count(_, _)
Count(s, x) ==
    IF s = <<>> THEN 0
    ELSE (IF Head(s) = x THEN 1 ELSE 0) + Count(Tail(s), x)

\* ------------------------------------------------------------------- tasks
ApiSlots == {<<"api", 1>>, <<"api", 2>>}     \* free-form calls in flight at once
Endpoints == {<<"ep", c>> : c \in Conns}
Frames == ApiSlots \cup Endpoints

IdleCall == [op |-> "none", ws |-> None, pc |-> "idle", result |-> "none"]

Resting(t) == calls[t].pc \in {"idle", "done"}

\* a call that ended: what it was and how it ended is all that is kept of it
Done(f, r) == [op |-> f.op, ws |-> None, pc |-> "done", result |-> r]

BroadcastSlots == {1, 2}                     \* broadcast calls in flight at once

NoCaller == <<"none", 0>>

\* A frame of broadcast holds the locals of the call (message, connections
\* and the position i of the loop) and, for the record, what the call did
\* (log), how it ended (result), who called it, and where every other call
\* stood when this one took its copy (others).
IdleBroadcast ==
    [pc |-> "idle", message |-> None, connections |-> <<>>, i |-> 0,
     log |-> <<>>, result |-> "none", caller |-> NoCaller,
     others |-> [x \in BroadcastSlots |-> "not_yet"]]

\* ------------------------------------------------------------ ServerStatus
\* datetime.now().isoformat(): the fields are fixed-width, so the strings
\* order as the readings do; the reading stands for the string.
Now == clock

IncrementMutantSkip(n) == n

\* ServerStatus.increment_clients, the counter
IncrementClients(n) == n + 1

DecrementMutantNoFloor(n) == n - 1

\* ServerStatus.decrement_clients, the counter
DecrementClients(n) == Max(0, n - 1)

StatusAcquireMutantNoWait(t) == status_lock' = t

\* async with self._lock, the acquisition: waits until the lock is free
StatusAcquire(t) ==
    /\ status_lock = Free
    /\ status_lock' = t

StatusRelease(t) ==
    /\ status_lock = t
    /\ status_lock' = Free

\* ------------------------------------------------------- ConnectionManager
LockAcquire(t) ==
    /\ lock = Free
    /\ lock' = t

LockReleaseMutantHold(t) ==
    /\ lock = t
    /\ lock' = lock

\* async with self._lock, the end of the block
LockRelease(t) ==
    /\ lock = t
    /\ lock' = Free

\* WebSocket.accept(): the handshake of a connection that is still
\* CONNECTING succeeds or fails; a second accept raises RuntimeError.
AcceptOutcomes(c) ==
    IF ws_state[c] = "CONNECTING" THEN {"ok", "raised"} ELSE {"raised"}

DisconnectMutantInvertedFilter(list, ws) == SelectSeq(list, LAMBDA x : x = ws)

DisconnectMutantKeep(list, ws) == list

\* ConnectionManager.disconnect, the critical section
DisconnectRemove(list, ws) ==
    IF ws \in Range(list) THEN ListRemove(list, ws) ELSE list

\* ConnectionManager.connect(websocket) is called
CallConnect(t, c) ==
    /\ Resting(t)
    /\ calls' = [calls EXCEPT ![t] =
                    [op |-> "connect", ws |-> c, pc |-> "accept", result |-> "none"]]

ConnectAcceptMutantIgnoresFailure(t) ==
    /\ calls[t].pc = "accept"
    /\ \E r \in AcceptOutcomes(calls[t].ws) :
          /\ ws_state' = IF r = "ok"
                         THEN [ws_state EXCEPT ![calls[t].ws] = "CONNECTED"]
                         ELSE ws_state
          /\ calls' = [calls EXCEPT ![t].pc = "lock"]
    /\ UNCHANGED <<statusVars, active_connections, lock, clock, bcastVars, ncalls,
                   crudVars, hbVars>>

\* await websocket.accept()
ConnectAccept(t) ==
    /\ calls[t].pc = "accept"
    /\ \E r \in AcceptOutcomes(calls[t].ws) :
          IF r = "ok"
          THEN /\ ws_state' = [ws_state EXCEPT ![calls[t].ws] = "CONNECTED"]
               /\ calls' = [calls EXCEPT ![t].pc = "lock"]
          ELSE /\ ws_state' = ws_state
               /\ calls' = [calls EXCEPT ![t] = Done(calls[t], "raised")]
    /\ UNCHANGED <<statusVars, active_connections, lock, clock, bcastVars, ncalls,
                   crudVars, hbVars>>

\* async with self._lock (connect and disconnect)
CallLock(t) ==
    /\ calls[t].pc = "lock"
    /\ LockAcquire(t)
    /\ calls' = [calls EXCEPT ![t].pc =
                    IF calls[t].op = "connect" THEN "append" ELSE "remove"]
    /\ UNCHANGED <<statusVars, active_connections, clock, ws_state, bcastVars, ncalls,
                   crudVars, hbVars>>

\* self.active_connections.append(websocket)
ConnectAppend(t) ==
    /\ calls[t].pc = "append"
    /\ active_connections' = Append(active_connections, calls[t].ws)
    /\ LockRelease(t)
    /\ calls' = [calls EXCEPT ![t].pc = "increment"]
    /\ UNCHANGED <<statusVars, clock, ws_state, bcastVars, ncalls,
                   crudVars, hbVars>>

\* ConnectionManager.disconnect(websocket) is called
CallDisconnect(t, c) ==
    /\ Resting(t)
    /\ calls' = [calls EXCEPT ![t] =
                    [op |-> "disconnect", ws |-> c, pc |-> "lock", result |-> "none"]]

\* if websocket in self.active_connections: self.active_connections.remove(websocket)
DisconnectBody(t) ==
    /\ calls[t].pc = "remove"
    /\ active_connections' = DisconnectRemove(active_connections, calls[t].ws)
    /\ LockRelease(t)
    /\ calls' = [calls EXCEPT ![t].pc = "decrement"]
    /\ UNCHANGED <<statusVars, clock, ws_state, bcastVars, ncalls,
                   crudVars, hbVars>>

\* await server_status.increment_clients() / decrement_clients(): async with self._lock
CallStatusLock(t) ==
    /\ calls[t].pc \in {"increment", "decrement"}
    /\ StatusAcquire(t)
    /\ calls' = [calls EXCEPT ![t].pc =
                    IF calls[t].pc = "increment" THEN "increment_cs" ELSE "decrement_cs"]
    /\ UNCHANGED <<status, timestamp, connected_clients, active_connections, lock,
                   clock, ws_state, bcastVars, ncalls,
                   crudVars, hbVars>>

\* ServerStatus.increment_clients, the critical section
ConnectIncrement(t) ==
    /\ calls[t].pc = "increment_cs"
    /\ connected_clients' = IncrementClients(connected_clients)
    /\ timestamp' = Now
    /\ StatusRelease(t)
    /\ calls' = [calls EXCEPT ![t] = Done(calls[t], "returned")]
    /\ UNCHANGED <<status, active_connections, lock, clock, ws_state, bcastVars, ncalls,
                   crudVars, hbVars>>

\* ServerStatus.decrement_clients, the critical section
DisconnectDecrement(t) ==
    /\ calls[t].pc = "decrement_cs"
    /\ connected_clients' = DecrementClients(connected_clients)
    /\ timestamp' = Now
    /\ StatusRelease(t)
    /\ calls' = [calls EXCEPT ![t] = Done(calls[t], "returned")]
    /\ UNCHANGED <<status, active_connections, lock, clock, ws_state, bcastVars, ncalls,
                   crudVars, hbVars>>

\* one step of a connect or disconnect call in flight
CallStep(t) ==
    \/ ConnectAccept(t)
    \/ CallLock(t)
    \/ ConnectAppend(t)
    \/ DisconnectBody(t)
    \/ CallStatusLock(t)
    \/ ConnectIncrement(t)
    \/ DisconnectDecrement(t)

\* the clock advances
Tick ==
    /\ clock < MaxClock
    /\ clock' = clock + 1
    /\ UNCHANGED <<statusVars, active_connections, lock, ws_state, bcastVars, calls, ncalls,
                   crudVars, hbVars>>

\* ------------------------------------------------------- the free-form API
\* the lowest resting slot takes the next call
FreeSlot(t) ==
    /\ t \in ApiSlots
    /\ Resting(t)
    /\ \A u \in ApiSlots : u[2] < t[2] => ~Resting(u)

ApiConnect ==
    /\ ncalls < MaxCalls
    /\ \E t \in ApiSlots, c \in Conns :
          /\ FreeSlot(t)
          /\ CallConnect(t, c)
    /\ ncalls' = ncalls + 1
    /\ UNCHANGED <<statusVars, active_connections, lock, clock, ws_state, bcastVars,
                   crudVars, hbVars>>

ApiDisconnect ==
    /\ ncalls < MaxCalls
    /\ \E t \in ApiSlots, c \in Conns :
          /\ FreeSlot(t)
          /\ CallDisconnect(t, c)
    /\ ncalls' = ncalls + 1
    /\ UNCHANGED <<statusVars, active_connections, lock, clock, ws_state, bcastVars,
                   crudVars, hbVars>>

ApiStep == \E t \in ApiSlots : CallStep(t)

\* --------------------------------------------- ConnectionManager.broadcast
\* the messages of the free-form broadcast calls
ApiMessages == {[type |-> "product_created", name |-> "Widget"]}

LoopMutantLive(f) == active_connections

\* `for connection in connections`: the list the loop walks
LoopConnections(f) == f.connections

\* the loop moves on to the next connection, or past the last one
LoopNext(f, c, outcome) ==
    [f EXCEPT !.i = f.i + 1,
              !.log = Append(f.log, <<c, outcome>>),
              !.pc = IF f.i + 1 > Len(LoopConnections(f)) THEN "done" ELSE "send",
              !.result = IF f.i + 1 > Len(LoopConnections(f)) THEN "returned" ELSE "none"]

ExceptMutantBreak(f, c) ==
    [f EXCEPT !.log = Append(f.log, <<c, "failed">>), !.pc = "done", !.result = "returned"]

ExceptMutantRaise(f, c) ==
    [f EXCEPT !.log = Append(f.log, <<c, "failed">>), !.pc = "done", !.result = "raised"]

\* `except Exception: pass`: the frame after a send_json that raised
OnSendException(f, c) == LoopNext(f, c, "failed")

PruneMutantDisconnect(list, c) == DisconnectRemove(list, c)

\* `except Exception: pass`: the registry after a send_json that raised
ActiveAfterSendException(list, c) == list

\* manager.broadcast(message) is called, in the lowest frame at rest of
\* `slots`; what was on record of that frame's last call is dropped, and an
\* ended call of the same caller is no longer the caller's
BroadcastCall(b, slots, message, caller) ==
    /\ b \in slots
    /\ bcast[b].pc \in {"idle", "done"}
    /\ \A x \in slots : x < b => bcast[x].pc \notin {"idle", "done"}
    /\ inbox' = [c \in Conns |-> SelectSeq(inbox[c], LAMBDA x : x # b)]
    /\ bcast' = [x \in BroadcastSlots |->
                    IF x = b
                    THEN [IdleBroadcast EXCEPT !.pc = "lock", !.message = message,
                                               !.caller = caller]
                    ELSE IF bcast[x].pc = "done" /\ bcast[x].caller = caller
                    THEN [bcast[x] EXCEPT !.caller = NoCaller, !.others[b] = "not_yet"]
                    ELSE [bcast[x] EXCEPT !.others[b] = "not_yet"]]

BroadcastTask(b) == <<"bc", b>>

\* async with self._lock
BroadcastLock(b) ==
    /\ bcast[b].pc = "lock"
    /\ LockAcquire(BroadcastTask(b))
    /\ bcast' = [bcast EXCEPT ![b].pc = "copy"]
    /\ UNCHANGED <<statusVars, active_connections, clock, ws_state, inbox, nbcast,
                   calls, ncalls,
                   crudVars, hbVars>>

\* where the call of frame f stands for a call that takes its copy now: it
\* has not taken its own yet, it has and is sending, or it has ended
CopyStage(f) ==
    IF f.pc \in {"send", "hung"} THEN "running"
    ELSE IF f.pc = "done" THEN "ended"
    ELSE "not_yet"

InboxMutantPrepend(received, b) == <<b>> \o received

\* what a connection has received after one more send_json returned: the
\* frames of one connection arrive in the order the sends were made
Delivered(received, b) == Append(received, b)

\* connections = self.active_connections.copy()
BroadcastCopy(b) ==
    /\ bcast[b].pc = "copy"
    /\ LockRelease(BroadcastTask(b))
    /\ bcast' = [bcast EXCEPT ![b].connections = active_connections,
                              ![b].others = [x \in BroadcastSlots |-> CopyStage(bcast[x])],
                              ![b].i = 1,
                              ![b].pc = IF active_connections = <<>> THEN "done" ELSE "send",
                              ![b].result = IF active_connections = <<>> THEN "returned" ELSE "none"]
    /\ UNCHANGED <<statusVars, active_connections, clock, ws_state, inbox, nbcast,
                   calls, ncalls,
                   crudVars, hbVars>>

\* await connection.send_json(message) returns
BroadcastSendOk(b) ==
    /\ bcast[b].pc = "send"
    /\ bcast[b].i <= Len(LoopConnections(bcast[b]))
    /\ LET c == LoopConnections(bcast[b])[bcast[b].i] IN
          /\ inbox' = [inbox EXCEPT ![c] = Delivered(@, b)]
          /\ bcast' = [bcast EXCEPT ![b] = LoopNext(bcast[b], c, "sent")]
    /\ UNCHANGED <<statusVars, active_connections, lock, clock, ws_state, nbcast,
                   calls, ncalls,
                   crudVars, hbVars>>

\* await connection.send_json(message) raises
BroadcastSendRaises(b) ==
    /\ bcast[b].pc = "send"
    /\ bcast[b].i <= Len(LoopConnections(bcast[b]))
    /\ LET c == LoopConnections(bcast[b])[bcast[b].i] IN
          /\ bcast' = [bcast EXCEPT ![b] = OnSendException(bcast[b], c)]
          /\ active_connections' = ActiveAfterSendException(active_connections, c)
    /\ UNCHANGED <<statusVars, lock, clock, ws_state, inbox, nbcast, calls, ncalls,
                   crudVars, hbVars>>

\* await connection.send_json(message) never completes: the client does not
\* read, and the coroutine stays suspended in the await
BroadcastSendHangs(b) ==
    /\ bcast[b].pc = "send"
    /\ bcast[b].i <= Len(LoopConnections(bcast[b]))
    /\ bcast' = [bcast EXCEPT ![b].pc = "hung"]
    /\ UNCHANGED <<statusVars, active_connections, lock, clock, ws_state, inbox, nbcast,
                   calls, ncalls,
                   crudVars, hbVars>>

BroadcastHang == \E b \in BroadcastSlots : BroadcastSendHangs(b)

BroadcastStep ==
    \E b \in BroadcastSlots :
        \/ BroadcastLock(b)
        \/ BroadcastCopy(b)
        \/ BroadcastSendOk(b)
        \/ BroadcastSendRaises(b)

ApiBroadcastIn(slots) ==
    /\ nbcast < MaxBroadcasts
    /\ nbcast' = nbcast + 1
    /\ \E b \in slots, m \in ApiMessages : BroadcastCall(b, slots, m, <<"api", 0>>)
    /\ UNCHANGED <<statusVars, active_connections, lock, clock, ws_state, calls, ncalls,
                   crudVars, hbVars>>

\* a caller broadcasts; other broadcasts may be in flight
ApiBroadcast == ApiBroadcastIn(BroadcastSlots)

\* a caller broadcasts once the broadcast before has returned
ApiBroadcastInTurn == ApiBroadcastIn({1})

\* ------------------------------------------------------ websocket_endpoint
\* The endpoint of connection c runs in the frame <<"ep", c>>; where it
\* stands is read off that frame:
\*   idle                      the client has not connected yet
\*   connect, in flight        await manager.connect(websocket)
\*   connect, returned         the receive loop
\*   connect, raised           accept failed and the endpoint ended with it
\*   receive, raised           receive_text raised something else than
\*                             WebSocketDisconnect and the endpoint ended with it
\*   disconnect, in flight     await manager.disconnect(websocket)
\*   disconnect, returned      the endpoint returned
ConnOrder == <<"A", "B", "C">>
TwoClients == <<"A", "B">>
OneClient == <<"A">>

Ep(c) == <<"ep", c>>

Receiving(c) ==
    /\ calls[Ep(c)].op = "connect"
    /\ calls[Ep(c)].pc = "done"
    /\ calls[Ep(c)].result = "returned"

\* a client opens /ws: await manager.connect(websocket).  Connections are
\* interchangeable, so they are opened in the order of ConnOrder.
EndpointOpenAmong(order) ==
    /\ \E k \in 1..Len(order) :
          /\ calls[Ep(order[k])].pc = "idle"
          /\ \A j \in 1..(k - 1) : calls[Ep(order[j])].pc # "idle"
          /\ CallConnect(Ep(order[k]), order[k])
    /\ UNCHANGED <<statusVars, active_connections, lock, clock, ws_state, bcastVars, ncalls,
                   crudVars, hbVars>>

EndpointOpen == EndpointOpenAmong(ConnOrder)

EndpointOpenTwo == EndpointOpenAmong(TwoClients)

EndpointOpenOne == EndpointOpenAmong(OneClient)

\* receive_text raises WebSocketDisconnect: await manager.disconnect(websocket)
EndpointDisconnect ==
    /\ \E c \in Conns :
          /\ Receiving(c)
          /\ CallDisconnect(Ep(c), c)
    /\ UNCHANGED <<statusVars, active_connections, lock, clock, ws_state, bcastVars, ncalls,
                   crudVars, hbVars>>

\* receive_text raises another exception: nothing catches it
EndpointReceiveRaises ==
    /\ \E c \in Conns :
          /\ Receiving(c)
          /\ calls' = [calls EXCEPT ![Ep(c)] =
                          [op |-> "receive", ws |-> None, pc |-> "done", result |-> "raised"]]
    /\ UNCHANGED <<statusVars, active_connections, lock, clock, ws_state, bcastVars, ncalls,
                   crudVars, hbVars>>

EndpointStep == \E t \in Endpoints : CallStep(t)

\* one step of a connect call of an endpoint
EndpointConnectStep ==
    \E t \in Endpoints :
        \/ ConnectAccept(t)
        \/ CallLock(t)
        \/ ConnectAppend(t)
        \/ CallStatusLock(t)
        \/ ConnectIncrement(t)

\* ------------------------------------------------------------- persistence
\* A nullable Integer column holds an integer or NULL; NoneInt stands for
\* NULL (Python's None).  The columns description and price are carried
\* from the request to the row and to the messages as name is, and are
\* left out.
NoneInt == -1

ProductIds == {1}              \* the ids the sequence of products.id hands out
ProbedIds == {1, 2}            \* the ids of the request paths
CategoryIds == {1, 2}
Quantities == 0..MaxQuantity

NoProduct ==
    [exists |-> FALSE, name |-> None, quantity |-> NoneInt,
     low_stock_threshold |-> NoneInt, category_id |-> NoneInt]

NoCategory == [exists |-> FALSE, name |-> None]

SelectProductMutantNoFilter(id) == products[CHOOSE i \in ProductIds : TRUE]

\* select(Product).filter(Product.id == product_id), scalar_one_or_none()
SelectProduct(id) == IF id \in ProductIds THEN products[id] ELSE NoProduct

\* select(Category).filter(Category.id == category_id), scalar_one_or_none()
SelectCategory(id) == IF id \in CategoryIds THEN categories[id] ELSE NoCategory

\* ProductCreate: every field but category_id is required and not null
ProductCreateBodies ==
    [name : {"Widget"}, quantity : Quantities, low_stock_threshold : Quantities,
     category_id : {NoneInt} \cup ProbedIds]

\* ProductUpdate.model_dump(exclude_unset=True): the fields the request set,
\* each Optional, so null where the request says null
UpdateKeys == {"name", "quantity", "low_stock_threshold", "category_id"}

UpdateValues ==
    [name : {"Gadget"},
     quantity : Quantities \cup {NoneInt},
     low_stock_threshold : Quantities \cup {NoneInt},
     category_id : {NoneInt} \cup ProbedIds]

ProductUpdateBodies ==
    {[k \in K |-> v[k]] : K \in SUBSET UpdateKeys, v \in UpdateValues}

\* for key, value in update_data.items(): setattr(db_product, key, value)
SetAttrs(row, update_data) ==
    [k \in DOMAIN row |-> IF k \in DOMAIN update_data THEN update_data[k] ELSE row[k]]

\* the product of a product_created / product_updated message
ProductPayload(id, row) ==
    [id |-> id, name |-> row.name, quantity |-> row.quantity,
     low_stock_threshold |-> row.low_stock_threshold, category_id |-> row.category_id]

ProductCreatedMessage(id, row) ==
    [type |-> "product_created", product |-> ProductPayload(id, row)]

ProductUpdatedMessage(id, row) ==
    [type |-> "product_updated", product |-> ProductPayload(id, row)]

\* the alert message: its text holds the name and the quantity of the product
AlertMessage(row) ==
    [type |-> "alert", product |-> row.name, quantity |-> row.quantity]

\* `int < None` and `None < int` raise TypeError
Comparable(row) == row.quantity # NoneInt /\ row.low_stock_threshold # NoneInt

LowStockMutantAtOrBelow(row) == row.quantity <= row.low_stock_threshold

\* db_product.quantity < db_product.low_stock_threshold
LowStock(row) == row.quantity < row.low_stock_threshold

\* ---------------------------------------------------------------- handlers
HandlerSlots == {1}                          \* HTTP requests in flight at once
RacingSlots == {1, 2}                        \* the same, where requests race

IdleHandler ==
    [op |-> "none", pc |-> "idle", product_id |-> 0,
     row |-> NoProduct, committed |-> FALSE, published |-> <<>>,
     result |-> 0, error |-> "none",
     category_id |-> 0, category |-> NoCategory,
     skip |-> 0, limit |-> 0, listing |-> <<>>]

HandlerResting(h) == handlers[h].pc \in {"idle", "done"}

Task(h) == <<"http", h>>

\* the broadcast frame of the call handler h is waiting for
FrameOf(h) == CHOOSE b \in BroadcastSlots : bcast[b].caller = Task(h)

\* the handler ends: the response or the exception
Respond(f, code, why) ==
    [f EXCEPT !.pc = "done", !.result = code, !.error = why, !.row = NoProduct,
              !.category = NoCategory]

\* await manager.broadcast(message), from handler h
Publish(h, message) ==
    \E b \in BroadcastSlots :
        BroadcastCall(b, {x \in BroadcastSlots :
                            \A g \in RacingSlots \ {h} : bcast[x].caller # Task(g)},
                      message, Task(h))

\* POST /products/ arrives: create_product up to its first await
CreateProductCallFrom(h, bodies) ==
    /\ HandlerResting(h)
    /\ nrequests < MaxRequests
    /\ next_product_id \in ProductIds
    /\ nrequests' = nrequests + 1
    /\ \E body \in bodies :
          handlers' = [handlers EXCEPT ![h] =
              [IdleHandler EXCEPT
                  !.op = "create_product",
                  !.row = [NoProduct EXCEPT !.exists = TRUE,
                                            !.name = body.name,
                                            !.quantity = body.quantity,
                                            !.low_stock_threshold = body.low_stock_threshold,
                                            !.category_id = body.category_id],
                  !.pc = IF body.category_id # NoneInt /\ body.category_id # 0
                         THEN "check_category" ELSE "commit"]]
    /\ UNCHANGED <<statusVars, active_connections, lock, clock, ws_state, calls,
                   ncalls, bcastVars, dbVars, hbVars>>

CreateProductCall(h) == CreateProductCallFrom(h, ProductCreateBodies)

\* the select of the category returns (create_product and update_product)
HandlerCheckCategory(h) ==
    /\ handlers[h].pc = "check_category"
    /\ handlers' = [handlers EXCEPT ![h] =
          IF SelectCategory(handlers[h].row.category_id).exists
          THEN [handlers[h] EXCEPT !.pc = "commit"]
          ELSE Respond(handlers[h], 404, "Category not found")]
    /\ UNCHANGED <<statusVars, active_connections, lock, clock, ws_state, calls,
                   ncalls, bcastVars, dbVars, nrequests, hbVars>>

\* ForeignKey("categories.id"), nullable: the database takes a row of
\* products only with a category_id that is null or the id of a category
ForeignKeyHolds(row) ==
    row.category_id = NoneInt \/ SelectCategory(row.category_id).exists

\* create_product: db.add(new_product); await db.commit()
CreateProductCommit(h) ==
    /\ handlers[h].op = "create_product"
    /\ handlers[h].pc = "commit"
    /\ next_product_id \in ProductIds
    /\ next_product_id' = next_product_id + 1
    /\ IF ForeignKeyHolds(handlers[h].row)
       THEN /\ products' = [products EXCEPT ![next_product_id] = handlers[h].row]
            /\ handlers' = [handlers EXCEPT ![h].product_id = next_product_id,
                                            ![h].committed = TRUE,
                                            ![h].pc = "reselect"]
       ELSE /\ products' = products
            /\ handlers' = [handlers EXCEPT ![h] =
                               Respond(handlers[h], 500, "IntegrityError")]
    /\ UNCHANGED <<statusVars, active_connections, lock, clock, ws_state, calls,
                   ncalls, bcastVars, categories, next_category_id, nrequests, hbVars>>

\* PUT /products/{product_id} arrives: update_product up to its first await
UpdateProductCall(h) ==
    /\ HandlerResting(h)
    /\ nrequests < MaxRequests
    /\ nrequests' = nrequests + 1
    /\ \E id \in ProbedIds :
          handlers' = [handlers EXCEPT ![h] =
              [IdleHandler EXCEPT !.op = "update_product", !.product_id = id,
                                  !.pc = "select"]]
    /\ UNCHANGED <<statusVars, active_connections, lock, clock, ws_state, calls,
                   ncalls, bcastVars, dbVars, hbVars>>

\* update_product: the select of the product returns; the body is dumped and,
\* unless a category is to be looked up first, set on the row
UpdateProductSelectFrom(h, bodies) ==
    /\ handlers[h].op = "update_product"
    /\ handlers[h].pc = "select"
    /\ LET db_product == SelectProduct(handlers[h].product_id) IN
          IF ~db_product.exists
          THEN handlers' = [handlers EXCEPT ![h] =
                               Respond(handlers[h], 404, "Product not found")]
          ELSE \E update_data \in bodies :
                  handlers' = [handlers EXCEPT ![h] =
                      [handlers[h] EXCEPT
                          !.row = SetAttrs(db_product, update_data),
                          !.pc = IF "category_id" \in DOMAIN update_data
                                    /\ update_data["category_id"] # NoneInt
                                 THEN "check_category" ELSE "commit"]]
    /\ UNCHANGED <<statusVars, active_connections, lock, clock, ws_state, calls,
                   ncalls, bcastVars, dbVars, nrequests, hbVars>>

UpdateProductSelect(h) == UpdateProductSelectFrom(h, ProductUpdateBodies)

\* update_product: await db.commit()
UpdateProductCommit(h) ==
    /\ handlers[h].op = "update_product"
    /\ handlers[h].pc = "commit"
    /\ IF ~SelectProduct(handlers[h].product_id).exists
       THEN /\ products' = products
            /\ handlers' = [handlers EXCEPT ![h] =
                               Respond(handlers[h], 500, "StaleDataError")]
       ELSE IF ~ForeignKeyHolds(handlers[h].row)
       THEN /\ products' = products
            /\ handlers' = [handlers EXCEPT ![h] =
                               Respond(handlers[h], 500, "IntegrityError")]
       ELSE /\ products' = [products EXCEPT ![handlers[h].product_id] = handlers[h].row]
            /\ handlers' = [handlers EXCEPT ![h].committed = TRUE, ![h].pc = "refresh"]
    /\ UNCHANGED <<statusVars, active_connections, lock, clock, ws_state, calls,
                   ncalls, bcastVars, categories, next_product_id, next_category_id,
                   nrequests, hbVars>>

\* update_product: await db.refresh(db_product); db.expire(db_product)
UpdateProductRefresh(h) ==
    /\ handlers[h].pc = "refresh"
    /\ handlers' = [handlers EXCEPT ![h] =
          IF SelectProduct(handlers[h].product_id).exists
          THEN [handlers[h] EXCEPT !.row = SelectProduct(handlers[h].product_id),
                                   !.pc = "reselect"]
          ELSE Respond(handlers[h], 500, "InvalidRequestError")]
    /\ UNCHANGED <<statusVars, active_connections, lock, clock, ws_state, calls,
                   ncalls, bcastVars, dbVars, nrequests, hbVars>>

\* the select after the commit returns, scalar_one(), and the handler calls
\* manager.broadcast with the row it read
HandlerReselect(h) ==
    /\ handlers[h].pc = "reselect"
    /\ LET id == handlers[h].product_id
           row == SelectProduct(id)
           message == IF handlers[h].op = "create_product"
                      THEN ProductCreatedMessage(id, row)
                      ELSE ProductUpdatedMessage(id, row)
       IN IF row.exists
          THEN /\ Publish(h, message)
               /\ handlers' = [handlers EXCEPT ![h].row = row,
                                               ![h].published = Append(@, message),
                                               ![h].pc = "broadcast"]
          ELSE /\ handlers' = [handlers EXCEPT ![h] =
                                  Respond(handlers[h], 500, "NoResultFound")]
               /\ UNCHANGED <<bcast, inbox>>
    /\ UNCHANGED <<statusVars, active_connections, lock, clock, ws_state, calls,
                   ncalls, nbcast, dbVars, nrequests, hbVars>>

BroadcastMutantNotAwaited(h) == TRUE

\* await manager.broadcast(...) resumes the handler when the call has ended
BroadcastReturned(h) == bcast[FrameOf(h)].pc = "done"

\* create_product: its broadcast has ended
CreateProductReturn(h) ==
    /\ handlers[h].op = "create_product"
    /\ handlers[h].pc = "broadcast"
    /\ bcast[FrameOf(h)].pc = "done"
    /\ handlers' = [handlers EXCEPT ![h] =
          IF bcast[FrameOf(h)].result = "raised"
          THEN Respond(handlers[h], 500, "broadcast")
          ELSE Respond(handlers[h], 200, "none")]
    /\ UNCHANGED <<statusVars, active_connections, lock, clock, ws_state, calls,
                   ncalls, bcastVars, dbVars, nrequests, hbVars>>

\* update_product: the broadcast of product_updated has ended; the low-stock
\* check, and the broadcast of the alert or the return
UpdateProductCheckStock(h) ==
    /\ handlers[h].op = "update_product"
    /\ handlers[h].pc = "broadcast"
    /\ BroadcastReturned(h)
    /\ LET db_product == handlers[h].row IN
          IF bcast[FrameOf(h)].result = "raised"
          THEN /\ handlers' = [handlers EXCEPT ![h] =
                                  Respond(handlers[h], 500, "broadcast")]
               /\ UNCHANGED <<bcast, inbox>>
          ELSE IF ~Comparable(db_product)
          THEN /\ handlers' = [handlers EXCEPT ![h] =
                                  Respond(handlers[h], 500, "TypeError")]
               /\ UNCHANGED <<bcast, inbox>>
          ELSE IF LowStock(db_product)
          THEN /\ Publish(h, AlertMessage(db_product))
               /\ handlers' = [handlers EXCEPT
                                  ![h].published = Append(@, AlertMessage(db_product)),
                                  ![h].pc = "broadcast_alert"]
          ELSE /\ handlers' = [handlers EXCEPT ![h] = Respond(handlers[h], 200, "none")]
               /\ UNCHANGED <<bcast, inbox>>
    /\ UNCHANGED <<statusVars, active_connections, lock, clock, ws_state, calls,
                   ncalls, nbcast, dbVars, nrequests, hbVars>>

\* update_product: the broadcast of the alert has ended; return db_product
UpdateProductReturn(h) ==
    /\ handlers[h].pc = "broadcast_alert"
    /\ bcast[FrameOf(h)].pc = "done"
    /\ handlers' = [handlers EXCEPT ![h] =
          IF bcast[FrameOf(h)].result = "raised"
          THEN Respond(handlers[h], 500, "broadcast")
          ELSE Respond(handlers[h], 200, "none")]
    /\ UNCHANGED <<statusVars, active_connections, lock, clock, ws_state, calls,
                   ncalls, bcastVars, dbVars, nrequests, hbVars>>

HandlerStep ==
    \E h \in HandlerSlots :
        \/ HandlerCheckCategory(h)
        \/ CreateProductCommit(h)
        \/ UpdateProductSelect(h)
        \/ UpdateProductCommit(h)
        \/ UpdateProductRefresh(h)
        \/ HandlerReselect(h)
        \/ CreateProductReturn(h)
        \/ UpdateProductCheckStock(h)
        \/ UpdateProductReturn(h)

\* the bodies of PUT /products/{id} that leave quantity unset
OtherFieldBodies == {u \in ProductUpdateBodies : "quantity" \notin DOMAIN u}

\* the steps of the product handlers when every update leaves quantity unset
OtherFieldsStep ==
    \E h \in HandlerSlots :
        \/ HandlerCheckCategory(h)
        \/ CreateProductCommit(h)
        \/ UpdateProductSelectFrom(h, OtherFieldBodies)
        \/ UpdateProductCommit(h)
        \/ UpdateProductRefresh(h)
        \/ HandlerReselect(h)
        \/ CreateProductReturn(h)
        \/ UpdateProductCheckStock(h)
        \/ UpdateProductReturn(h)

\* --------------------------------------- create_category and delete_product
CategoryNames == {"Tools"}

\* select(Category).filter(Category.name == name), scalar_one_or_none()
NameTaken(name) ==
    \E id \in CategoryIds : categories[id].exists /\ categories[id].name = name

UniqueMutantNotEnforced(id, name) == FALSE

\* unique=True of Category.name: a row other than id holds the name
UniqueViolated(id, name) ==
    \E other \in CategoryIds \ {id} :
        categories[other].exists /\ categories[other].name = name

\* the id the sequence of categories.id hands out next
NextCategoryId == next_category_id

CategoryCreatedMessage(id, row) ==
    [type |-> "category_created", category |-> [id |-> id, name |-> row.name]]

ProductDeletedMessage(id) == [type |-> "product_deleted", product_id |-> id]

\* POST /categories/ arrives: create_category up to its first await
CreateCategoryCall(h) ==
    /\ HandlerResting(h)
    /\ nrequests < MaxRequests
    /\ nrequests' = nrequests + 1
    /\ \E name \in CategoryNames :
          /\ NameTaken(name) \/ NextCategoryId \in CategoryIds
          /\ handlers' = [handlers EXCEPT ![h] =
                [IdleHandler EXCEPT !.op = "create_category",
                                    !.category = [exists |-> TRUE, name |-> name],
                                    !.pc = "select_name"]]
    /\ UNCHANGED <<statusVars, active_connections, lock, clock, ws_state, calls,
                   ncalls, bcastVars, dbVars, hbVars>>

\* create_category: the select by name returns
CreateCategorySelect(h) ==
    /\ handlers[h].pc = "select_name"
    /\ handlers' = [handlers EXCEPT ![h] =
          IF NameTaken(handlers[h].category.name)
          THEN Respond(handlers[h], 400, "Category with this name already exists")
          ELSE [handlers[h] EXCEPT !.pc = "commit_category"]]
    /\ UNCHANGED <<statusVars, active_connections, lock, clock, ws_state, calls,
                   ncalls, bcastVars, dbVars, nrequests, hbVars>>

\* create_category: db.add(new_category); await db.commit().  Category.name
\* is unique: the insert of a name that is there fails, and the value it took
\* of the sequence is not handed out again.
CreateCategoryCommit(h) ==
    /\ handlers[h].pc = "commit_category"
    /\ next_category_id' = next_category_id + 1
    /\ IF UniqueViolated(NextCategoryId, handlers[h].category.name)
       THEN /\ categories' = categories
            /\ handlers' = [handlers EXCEPT ![h] =
                               Respond(handlers[h], 500, "IntegrityError")]
       ELSE /\ NextCategoryId \in CategoryIds
            /\ categories' = [categories EXCEPT ![NextCategoryId] = handlers[h].category]
            /\ handlers' = [handlers EXCEPT ![h].category_id = NextCategoryId,
                                            ![h].committed = TRUE,
                                            ![h].pc = "refresh_category"]
    /\ UNCHANGED <<statusVars, active_connections, lock, clock, ws_state, calls,
                   ncalls, bcastVars, products, next_product_id, nrequests, hbVars>>

\* create_category: await db.refresh(new_category) returns, and the handler
\* calls manager.broadcast with the row it read
CreateCategoryRefresh(h) ==
    /\ handlers[h].pc = "refresh_category"
    /\ LET id == handlers[h].category_id
           row == SelectCategory(id)
       IN /\ Publish(h, CategoryCreatedMessage(id, row))
          /\ handlers' = [handlers EXCEPT
                             ![h].category = row,
                             ![h].published = Append(@, CategoryCreatedMessage(id, row)),
                             ![h].pc = "broadcast"]
    /\ UNCHANGED <<statusVars, active_connections, lock, clock, ws_state, calls,
                   ncalls, nbcast, dbVars, nrequests, hbVars>>

\* DELETE /products/{product_id} arrives: delete_product up to its first await
DeleteProductCall(h) ==
    /\ HandlerResting(h)
    /\ nrequests < MaxRequests
    /\ nrequests' = nrequests + 1
    /\ \E id \in ProbedIds :
          handlers' = [handlers EXCEPT ![h] =
              [IdleHandler EXCEPT !.op = "delete_product", !.product_id = id,
                                  !.pc = "select_delete"]]
    /\ UNCHANGED <<statusVars, active_connections, lock, clock, ws_state, calls,
                   ncalls, bcastVars, dbVars, hbVars>>

\* delete_product: the select of the product returns
DeleteProductSelect(h) ==
    /\ handlers[h].pc = "select_delete"
    /\ LET db_product == SelectProduct(handlers[h].product_id) IN
          handlers' = [handlers EXCEPT ![h] =
              IF ~db_product.exists
              THEN Respond(handlers[h], 404, "Product not found")
              ELSE [handlers[h] EXCEPT !.row = db_product, !.pc = "delete"]]
    /\ UNCHANGED <<statusVars, active_connections, lock, clock, ws_state, calls,
                   ncalls, bcastVars, dbVars, nrequests, hbVars>>

SessionDeleteMutantWriteThrough(table, id) == [table EXCEPT ![id] = NoProduct]

\* the table after db.delete(db_product): the row is marked in the session
\* and is there until the commit
SessionDelete(table, id) == table

\* delete_product: await db.delete(db_product)
DeleteProductDelete(h) ==
    /\ handlers[h].pc = "delete"
    /\ products' = SessionDelete(products, handlers[h].product_id)
    /\ handlers' = [handlers EXCEPT ![h].pc = "commit_delete"]
    /\ UNCHANGED <<statusVars, active_connections, lock, clock, ws_state, calls,
                   ncalls, bcastVars, categories, next_product_id, next_category_id,
                   nrequests, hbVars>>

\* delete_product: await db.commit()
DeleteProductCommit(h) ==
    /\ handlers[h].pc = "commit_delete"
    /\ IF SelectProduct(handlers[h].product_id).exists
       THEN /\ products' = [products EXCEPT ![handlers[h].product_id] = NoProduct]
            /\ handlers' = [handlers EXCEPT ![h].committed = TRUE,
                                            ![h].pc = "publish_delete"]
       ELSE /\ products' = products
            /\ handlers' = [handlers EXCEPT ![h] =
                               Respond(handlers[h], 500, "StaleDataError")]
    /\ UNCHANGED <<statusVars, active_connections, lock, clock, ws_state, calls,
                   ncalls, bcastVars, categories, next_product_id, next_category_id,
                   nrequests, hbVars>>

\* delete_product: the commit returned; await manager.broadcast(...)
DeleteProductPublish(h) ==
    /\ handlers[h].pc = "publish_delete"
    /\ Publish(h, ProductDeletedMessage(handlers[h].product_id))
    /\ handlers' = [handlers EXCEPT
                       ![h].published = Append(@, ProductDeletedMessage(handlers[h].product_id)),
                       ![h].pc = "broadcast"]
    /\ UNCHANGED <<statusVars, active_connections, lock, clock, ws_state, calls,
                   ncalls, nbcast, dbVars, nrequests, hbVars>>

\* the handlers with one broadcast: it has ended; return
CatalogReturn(h) ==
    /\ handlers[h].op \in {"create_category", "delete_product",
                           "update_category", "delete_category"}
    /\ handlers[h].pc = "broadcast"
    /\ bcast[FrameOf(h)].pc = "done"
    /\ handlers' = [handlers EXCEPT ![h] =
          IF bcast[FrameOf(h)].result = "raised"
          THEN Respond(handlers[h], 500, "broadcast")
          ELSE Respond(handlers[h], 200, "none")]
    /\ UNCHANGED <<statusVars, active_connections, lock, clock, ws_state, calls,
                   ncalls, bcastVars, dbVars, nrequests, hbVars>>

CatalogStep ==
    \E h \in HandlerSlots :
        \/ CreateCategorySelect(h)
        \/ CreateCategoryCommit(h)
        \/ CreateCategoryRefresh(h)
        \/ DeleteProductSelect(h)
        \/ DeleteProductDelete(h)
        \/ DeleteProductCommit(h)
        \/ DeleteProductPublish(h)
        \/ CatalogReturn(h)

CreateCategory == \E h \in HandlerSlots : CreateCategoryCall(h)

DeleteProduct == \E h \in HandlerSlots : DeleteProductCall(h)

\* ------------------------------------- delete_category and update_category
\* the orders in which a select without ORDER BY may return the rows of ids
Orders(ids) ==
    {order \in [1..Cardinality(ids) -> ids] : Range(order) = ids}

CategoryDeletedMessage(id) == [type |-> "category_deleted", category_id |-> id]

CategoryUpdatedMessage(id, row) ==
    [type |-> "category_updated", category |-> [id |-> id, name |-> row.name]]

\* DELETE /categories/{category_id} arrives: delete_category up to its await
DeleteCategoryCall(h) ==
    /\ HandlerResting(h)
    /\ nrequests < MaxRequests
    /\ nrequests' = nrequests + 1
    /\ \E id \in ProbedIds :
          handlers' = [handlers EXCEPT ![h] =
              [IdleHandler EXCEPT !.op = "delete_category", !.category_id = id,
                                  !.pc = "select_category"]]
    /\ UNCHANGED <<statusVars, active_connections, lock, clock, ws_state, calls,
                   ncalls, bcastVars, dbVars, hbVars>>

\* delete_category: the select of the category returns
DeleteCategorySelect(h) ==
    /\ handlers[h].op = "delete_category"
    /\ handlers[h].pc = "select_category"
    /\ LET db_category == SelectCategory(handlers[h].category_id) IN
          handlers' = [handlers EXCEPT ![h] =
              IF ~db_category.exists
              THEN Respond(handlers[h], 404, "Category not found")
              ELSE [handlers[h] EXCEPT !.category = db_category,
                                       !.pc = "select_products"]]
    /\ UNCHANGED <<statusVars, active_connections, lock, clock, ws_state, calls,
                   ncalls, bcastVars, dbVars, nrequests, hbVars>>

\* delete_category: the select of the products of the category returns, and
\* `product.category_id = None` is set on each of them in the session; then
\* await db.delete(db_category)
DeleteCategoryProducts(h) ==
    /\ handlers[h].pc = "select_products"
    /\ \E order \in Orders({id \in ProductIds :
                                products[id].exists
                                /\ products[id].category_id = handlers[h].category_id}) :
          handlers' = [handlers EXCEPT ![h].listing = order,
                                       ![h].pc = "delete_category"]
    /\ UNCHANGED <<statusVars, active_connections, lock, clock, ws_state, calls,
                   ncalls, bcastVars, dbVars, nrequests, hbVars>>

\* delete_category: db.delete(db_category) returns; await db.commit()
DeleteCategoryDelete(h) ==
    /\ handlers[h].pc = "delete_category"
    /\ handlers' = [handlers EXCEPT ![h].pc = "commit_delete_category"]
    /\ UNCHANGED <<statusVars, active_connections, lock, clock, ws_state, calls,
                   ncalls, bcastVars, dbVars, nrequests, hbVars>>

\* delete_category: the commit writes null to the products of the session
\* and deletes the category; a product that still refers to the category
\* fails the foreign key.  Then await manager.broadcast(...)
DeleteCategoryCommit(h) ==
    /\ handlers[h].pc = "commit_delete_category"
    /\ LET id == handlers[h].category_id
           listed == Range(handlers[h].listing)
           written == [p \in ProductIds |->
                          IF p \in listed
                          THEN [products[p] EXCEPT !.category_id = NoneInt]
                          ELSE products[p]]
       IN IF ~SelectCategory(id).exists \/ \E p \in listed : ~products[p].exists
          THEN /\ UNCHANGED <<products, categories, bcast, inbox>>
               /\ handlers' = [handlers EXCEPT ![h] =
                       Respond([handlers[h] EXCEPT !.listing = <<>>],
                               500, "StaleDataError")]
          ELSE IF \E p \in ProductIds : written[p].exists /\ written[p].category_id = id
          THEN /\ UNCHANGED <<products, categories, bcast, inbox>>
               /\ handlers' = [handlers EXCEPT ![h] =
                       Respond([handlers[h] EXCEPT !.listing = <<>>],
                               500, "IntegrityError")]
          ELSE /\ products' = written
               /\ categories' = [categories EXCEPT ![id] = NoCategory]
               /\ Publish(h, CategoryDeletedMessage(id))
               /\ handlers' = [handlers EXCEPT
                       ![h].committed = TRUE,
                       ![h].listing = <<>>,
                       ![h].published = Append(@, CategoryDeletedMessage(id)),
                       ![h].pc = "broadcast"]
    /\ UNCHANGED <<statusVars, active_connections, lock, clock, ws_state, calls,
                   ncalls, nbcast, next_product_id, next_category_id, nrequests,
                   hbVars>>

\* CategoryUpdate.model_dump(exclude_unset=True): the name, where it is set
CategoryUpdateBodies == {[k \in K |-> "Tools"] : K \in SUBSET {"name"}}

\* PUT /categories/{category_id} arrives: update_category up to its await
UpdateCategoryCall(h) ==
    /\ HandlerResting(h)
    /\ nrequests < MaxRequests
    /\ nrequests' = nrequests + 1
    /\ \E id \in ProbedIds :
          handlers' = [handlers EXCEPT ![h] =
              [IdleHandler EXCEPT !.op = "update_category", !.category_id = id,
                                  !.pc = "select_category"]]
    /\ UNCHANGED <<statusVars, active_connections, lock, clock, ws_state, calls,
                   ncalls, bcastVars, dbVars, hbVars>>

\* update_category: the select of the category returns; a new name is
\* looked up first, anything else is set on the row
UpdateCategorySelect(h) ==
    /\ handlers[h].op = "update_category"
    /\ handlers[h].pc = "select_category"
    /\ LET db_category == SelectCategory(handlers[h].category_id) IN
          IF ~db_category.exists
          THEN handlers' = [handlers EXCEPT ![h] =
                               Respond(handlers[h], 404, "Category not found")]
          ELSE \E update_data \in CategoryUpdateBodies :
                  handlers' = [handlers EXCEPT ![h] =
                      [handlers[h] EXCEPT
                          !.category = SetAttrs(db_category, update_data),
                          !.pc = IF "name" \in DOMAIN update_data
                                    /\ update_data["name"] # db_category.name
                                 THEN "check_name" ELSE "commit_update_category"]]
    /\ UNCHANGED <<statusVars, active_connections, lock, clock, ws_state, calls,
                   ncalls, bcastVars, dbVars, nrequests, hbVars>>

\* update_category: the select by the new name returns
UpdateCategoryCheckName(h) ==
    /\ handlers[h].pc = "check_name"
    /\ handlers' = [handlers EXCEPT ![h] =
          IF NameTaken(handlers[h].category.name)
          THEN Respond(handlers[h], 400, "Category with this name already exists")
          ELSE [handlers[h] EXCEPT !.pc = "commit_update_category"]]
    /\ UNCHANGED <<statusVars, active_connections, lock, clock, ws_state, calls,
                   ncalls, bcastVars, dbVars, nrequests, hbVars>>

\* update_category: await db.commit()
UpdateCategoryCommit(h) ==
    /\ handlers[h].pc = "commit_update_category"
    /\ LET id == handlers[h].category_id IN
          IF ~SelectCategory(id).exists
          THEN /\ categories' = categories
               /\ handlers' = [handlers EXCEPT ![h] =
                                  Respond(handlers[h], 500, "StaleDataError")]
          ELSE IF UniqueViolated(id, handlers[h].category.name)
          THEN /\ categories' = categories
               /\ handlers' = [handlers EXCEPT ![h] =
                                  Respond(handlers[h], 500, "IntegrityError")]
          ELSE /\ categories' = [categories EXCEPT ![id] = handlers[h].category]
               /\ handlers' = [handlers EXCEPT ![h].committed = TRUE,
                                               ![h].pc = "refresh_update_category"]
    /\ UNCHANGED <<statusVars, active_connections, lock, clock, ws_state, calls,
                   ncalls, bcastVars, products, next_product_id, next_category_id,
                   nrequests, hbVars>>

\* update_category: await db.refresh(db_category) returns, and the handler
\* calls manager.broadcast with the row it read
UpdateCategoryRefresh(h) ==
    /\ handlers[h].pc = "refresh_update_category"
    /\ LET id == handlers[h].category_id
           row == SelectCategory(id)
       IN IF row.exists
          THEN /\ Publish(h, CategoryUpdatedMessage(id, row))
               /\ handlers' = [handlers EXCEPT
                                  ![h].category = row,
                                  ![h].published = Append(@, CategoryUpdatedMessage(id, row)),
                                  ![h].pc = "broadcast"]
          ELSE /\ handlers' = [handlers EXCEPT ![h] =
                                  Respond(handlers[h], 500, "InvalidRequestError")]
               /\ UNCHANGED <<bcast, inbox>>
    /\ UNCHANGED <<statusVars, active_connections, lock, clock, ws_state, calls,
                   ncalls, nbcast, dbVars, nrequests, hbVars>>

DeleteCategory == \E h \in HandlerSlots : DeleteCategoryCall(h)

\* the steps of create_category and delete_category
CategoryStep ==
    \E h \in HandlerSlots :
        \/ CreateCategorySelect(h)
        \/ CreateCategoryCommit(h)
        \/ CreateCategoryRefresh(h)
        \/ DeleteCategorySelect(h)
        \/ DeleteCategoryProducts(h)
        \/ DeleteCategoryDelete(h)
        \/ DeleteCategoryCommit(h)
        \/ CatalogReturn(h)

\* POST /products/ with a category_id of 0 as well
ProductCreateBodiesWithZero ==
    ProductCreateBodies \cup {[body EXCEPT !.category_id = 0] : body \in ProductCreateBodies}

CreateProductWithZero ==
    \E h \in HandlerSlots : CreateProductCallFrom(h, ProductCreateBodiesWithZero)

\* create_category and update_category of requests that race
RacingCreateCategory == \E h \in RacingSlots : CreateCategoryCall(h)

RacingUpdateCategory == \E h \in RacingSlots : UpdateCategoryCall(h)

RacingStep ==
    \E h \in RacingSlots :
        \/ CreateCategorySelect(h)
        \/ CreateCategoryCommit(h)
        \/ CreateCategoryRefresh(h)
        \/ UpdateCategorySelect(h)
        \/ UpdateCategoryCheckName(h)
        \/ UpdateCategoryCommit(h)
        \/ UpdateCategoryRefresh(h)
        \/ CatalogReturn(h)

\* ------------------------------------------- read_product and read_products
\* the handler returns a row: the response is 200 with the row as its body
Return(f, row) ==
    [f EXCEPT !.pc = "done", !.result = 200, !.error = "none", !.row = row]

\* GET /products/{product_id} arrives: read_product up to its await
ReadProductCall(h) ==
    /\ HandlerResting(h)
    /\ \E id \in ProbedIds :
          handlers' = [handlers EXCEPT ![h] =
              [IdleHandler EXCEPT !.op = "read_product", !.product_id = id,
                                  !.pc = "select_read"]]
    /\ UNCHANGED <<statusVars, active_connections, lock, clock, ws_state, calls,
                   ncalls, bcastVars, dbVars, nrequests, hbVars>>

\* read_product: the select returns
ReadProductSelect(h) ==
    /\ handlers[h].pc = "select_read"
    /\ LET product == SelectProduct(handlers[h].product_id) IN
          handlers' = [handlers EXCEPT ![h] =
              IF ~product.exists
              THEN Respond(handlers[h], 404, "Product not found")
              ELSE Return(handlers[h], product)]
    /\ UNCHANGED <<statusVars, active_connections, lock, clock, ws_state, calls,
                   ncalls, bcastVars, dbVars, nrequests, hbVars>>

Skips == 0..1
Limits == 0..2

WindowMutantOffByOne(order, skip, limit) ==
    [j \in 1..(IF Len(order) - skip - 1 < limit
                THEN Max(0, Len(order) - skip - 1) ELSE limit) |-> order[skip + 1 + j]]

\* .offset(skip).limit(limit) of the rows in the order given
Window(order, skip, limit) ==
    [j \in 1..(IF Len(order) - skip < limit
                THEN Max(0, Len(order) - skip) ELSE limit) |-> order[skip + j]]

\* GET /products/ arrives: read_products up to its await
ReadProductsCall(h) ==
    /\ HandlerResting(h)
    /\ \E skip \in Skips, limit \in Limits :
          handlers' = [handlers EXCEPT ![h] =
              [IdleHandler EXCEPT !.op = "read_products", !.skip = skip,
                                  !.limit = limit, !.pc = "select_list"]]
    /\ UNCHANGED <<statusVars, active_connections, lock, clock, ws_state, calls,
                   ncalls, bcastVars, dbVars, nrequests, hbVars>>

\* read_products: the select returns; the body lists the ids and names
ReadProductsSelect(h) ==
    /\ handlers[h].pc = "select_list"
    /\ \E order \in Orders({id \in ProductIds : products[id].exists}) :
          LET ids == Window(order, handlers[h].skip, handlers[h].limit) IN
             handlers' = [handlers EXCEPT ![h] =
                 [handlers[h] EXCEPT
                     !.pc = "done", !.result = 200,
                     !.listing = [j \in 1..Len(ids) |->
                                     [id |-> ids[j], name |-> products[ids[j]].name]]]]
    /\ UNCHANGED <<statusVars, active_connections, lock, clock, ws_state, calls,
                   ncalls, bcastVars, dbVars, nrequests, hbVars>>

ReadProduct == \E h \in HandlerSlots : ReadProductCall(h)

ReadProducts == \E h \in HandlerSlots : ReadProductsCall(h)

ReadStep ==
    \E h \in HandlerSlots :
        \/ ReadProductSelect(h)
        \/ ReadProductsSelect(h)

\* one step of a delete_product request in flight
DeleteProductStep ==
    \E h \in HandlerSlots :
        \/ DeleteProductSelect(h)
        \/ DeleteProductDelete(h)
        \/ DeleteProductCommit(h)
        \/ DeleteProductPublish(h)
        \/ (handlers[h].op = "delete_product" /\ CatalogReturn(h))

\* one step of a create_product request in flight
CreateProductStep ==
    \E h \in HandlerSlots :
        \/ (handlers[h].op = "create_product" /\ HandlerCheckCategory(h))
        \/ CreateProductCommit(h)
        \/ (handlers[h].op = "create_product" /\ HandlerReselect(h))
        \/ CreateProductReturn(h)

CreateProduct == \E h \in HandlerSlots : CreateProductCall(h)

UpdateProduct == \E h \in HandlerSlots : UpdateProductCall(h)

\* ----------------------------------------------------------- update_status
StatusLabels == {"Online", "Offline"}

UpdateStatusTask == <<"update_status", 0>>

IdleUpdater == [pc |-> "idle", status |-> None]

\* server_status.update_status(status) is called: async with self._lock
UpdateStatusCall ==
    /\ updater.pc = "idle"
    /\ \E label \in StatusLabels : updater' = [pc |-> "lock", status |-> label]
    /\ UNCHANGED <<statusVars, active_connections, lock, clock, ws_state, calls,
                   ncalls, bcastVars, crudVars, heartbeat>>

UpdateStatusLock ==
    /\ updater.pc = "lock"
    /\ StatusAcquire(UpdateStatusTask)
    /\ updater' = [updater EXCEPT !.pc = "cs"]
    /\ UNCHANGED <<status, timestamp, connected_clients, active_connections, lock,
                   clock, ws_state, calls, ncalls, bcastVars, crudVars, heartbeat>>

\* ServerStatus.update_status, the critical section
UpdateStatusBody ==
    /\ updater.pc = "cs"
    /\ status' = updater.status
    /\ timestamp' = Now
    /\ StatusRelease(UpdateStatusTask)
    /\ updater' = IdleUpdater
    /\ UNCHANGED <<connected_clients, active_connections, lock, clock, ws_state,
                   calls, ncalls, bcastVars, crudVars, heartbeat>>

\* ------------------------------------------------- broadcast_server_status
HeartbeatTask == <<"heartbeat", 0>>

NoStatusMessage ==
    [type |-> "none", status |-> None, timestamp |-> 0, connected_clients |-> 0]

IdleHeartbeat == [pc |-> "idle", status_message |-> NoStatusMessage, ticks |-> 0]

GetStatusMutantRegistryLen ==
    [type |-> "status", status |-> status, timestamp |-> timestamp,
     connected_clients |-> Len(active_connections)]

\* ServerStatus.get_status, the dict it returns
GetStatus ==
    [type |-> "status", status |-> status, timestamp |-> timestamp,
     connected_clients |-> connected_clients]

\* lifespan: task = asyncio.create_task(broadcast_server_status())
HeartbeatStart ==
    /\ heartbeat.pc = "idle"
    /\ heartbeat' = [heartbeat EXCEPT !.pc = "refresh"]
    /\ UNCHANGED <<statusVars, active_connections, lock, clock, ws_state, calls,
                   ncalls, bcastVars, crudVars, updater>>

\* await server_status.refresh_timestamp() / get_status(): async with self._lock
HeartbeatStatusLock ==
    /\ heartbeat.pc \in {"refresh", "get_status"}
    /\ heartbeat.pc = "refresh" => heartbeat.ticks < MaxTicks
    /\ StatusAcquire(HeartbeatTask)
    /\ heartbeat' = [heartbeat EXCEPT !.pc =
                        IF heartbeat.pc = "refresh" THEN "refresh_cs" ELSE "get_status_cs"]
    /\ UNCHANGED <<status, timestamp, connected_clients, active_connections, lock,
                   clock, ws_state, calls, ncalls, bcastVars, crudVars, updater>>

HeartbeatRefreshMutantResetsStatus ==
    /\ heartbeat.pc = "refresh_cs"
    /\ status' = "Online"
    /\ timestamp' = Now
    /\ StatusRelease(HeartbeatTask)
    /\ heartbeat' = [heartbeat EXCEPT !.pc = "get_status"]
    /\ UNCHANGED <<connected_clients, active_connections, lock, clock,
                   ws_state, calls, ncalls, bcastVars, crudVars, updater>>

\* ServerStatus.refresh_timestamp, the critical section
HeartbeatRefresh ==
    /\ heartbeat.pc = "refresh_cs"
    /\ timestamp' = Now
    /\ StatusRelease(HeartbeatTask)
    /\ heartbeat' = [heartbeat EXCEPT !.pc = "get_status"]
    /\ UNCHANGED <<status, connected_clients, active_connections, lock, clock,
                   ws_state, calls, ncalls, bcastVars, crudVars, updater>>

\* status_message = await server_status.get_status(), the critical section,
\* and the call of manager.broadcast(status_message)
HeartbeatGetStatus ==
    /\ heartbeat.pc = "get_status_cs"
    /\ StatusRelease(HeartbeatTask)
    /\ heartbeat' = [heartbeat EXCEPT !.status_message = GetStatus, !.pc = "broadcast"]
    /\ \E b \in BroadcastSlots : BroadcastCall(b, BroadcastSlots, GetStatus, HeartbeatTask)
    /\ UNCHANGED <<status, timestamp, connected_clients, active_connections, lock,
                   clock, ws_state, calls, ncalls, nbcast, crudVars, updater>>

HeartbeatSleepMutantNoAwait ==
    /\ heartbeat.pc = "broadcast"
    /\ heartbeat' = [heartbeat EXCEPT !.pc = "sleep", !.ticks = heartbeat.ticks + 1]
    /\ UNCHANGED <<statusVars, active_connections, lock, clock, ws_state, calls,
                   ncalls, bcastVars, crudVars, updater>>

\* the broadcast has ended: await asyncio.sleep(5)
HeartbeatSleep ==
    /\ heartbeat.pc = "broadcast"
    /\ \E b \in BroadcastSlots :
          /\ bcast[b].caller = HeartbeatTask
          /\ bcast[b].pc = "done"
          /\ heartbeat' = [heartbeat EXCEPT
                              !.pc = IF bcast[b].result = "raised" THEN "raised" ELSE "sleep",
                              !.ticks = heartbeat.ticks + 1]
    /\ UNCHANGED <<statusVars, active_connections, lock, clock, ws_state, calls,
                   ncalls, bcastVars, crudVars, updater>>

\* the sleep is over: the next turn of `while True`
HeartbeatWake ==
    /\ heartbeat.pc = "sleep"
    /\ heartbeat' = [heartbeat EXCEPT !.pc = "refresh"]
    /\ UNCHANGED <<statusVars, active_connections, lock, clock, ws_state, calls,
                   ncalls, bcastVars, crudVars, updater>>

\* the awaits of broadcast a task can be suspended in: the acquisition of the
\* lock and a send_json
SuspendedInBroadcast(b) == bcast[b].pc \in {"lock", "send", "hung"}

\* CancelledError is raised in the await broadcast is suspended in; it is a
\* BaseException, `except Exception` lets it through, and broadcast ends
Cancelled(f) == [f EXCEPT !.pc = "done", !.result = "cancelled"]

\* lifespan, after the yield: task.cancel().  The task is suspended in an
\* await, of the status lock, of broadcast or of the sleep, and
\* CancelledError is raised there: nothing in the task catches it.
HeartbeatCancel ==
    /\ \/ heartbeat.pc \in {"refresh", "get_status", "sleep"}
       \/ /\ heartbeat.pc = "broadcast"
          /\ \E b \in BroadcastSlots :
                bcast[b].caller = HeartbeatTask /\ SuspendedInBroadcast(b)
    /\ heartbeat' = [heartbeat EXCEPT !.pc = "cancelled"]
    /\ bcast' = [b \in BroadcastSlots |->
                    IF /\ heartbeat.pc = "broadcast"
                       /\ bcast[b].caller = HeartbeatTask
                       /\ SuspendedInBroadcast(b)
                    THEN Cancelled(bcast[b]) ELSE bcast[b]]
    /\ UNCHANGED <<statusVars, active_connections, lock, clock, ws_state, calls,
                   ncalls, inbox, nbcast, crudVars, updater>>

HeartbeatStep ==
    \/ HeartbeatStatusLock
    \/ HeartbeatRefresh
    \/ HeartbeatGetStatus
    \/ HeartbeatSleep
    \/ HeartbeatWake

\* ----------------------------------------------------------- specification
Init ==
    /\ status = "Online"
    /\ timestamp = 0
    /\ connected_clients = 0
    /\ status_lock = Free
    /\ active_connections = <<>>
    /\ lock = Free
    /\ clock = 0
    /\ ws_state = [c \in Conns |-> "CONNECTING"]
    /\ inbox = [c \in Conns |-> <<>>]
    /\ calls = [t \in Frames |-> IdleCall]
    /\ ncalls = 0
    /\ bcast = [b \in BroadcastSlots |-> IdleBroadcast]
    /\ nbcast = 0
    /\ products = [id \in ProductIds |-> NoProduct]
    /\ categories = [id \in CategoryIds |-> NoCategory]
    /\ next_category_id = 1
    /\ next_product_id = 1
    /\ handlers = [h \in RacingSlots |-> IdleHandler]
    /\ nrequests = 0
    /\ heartbeat = IdleHeartbeat
    /\ updater = IdleUpdater

\* the process starts on the tables as the database holds them: here with a
\* product stored by an earlier run, the sequence of products.id past its id
StockedProduct ==
    [exists |-> TRUE, name |-> "Widget", quantity |-> 0,
     low_stock_threshold |-> 1, category_id |-> NoneInt]

InitRuntime ==
    /\ status = "Online"
    /\ timestamp = 0
    /\ connected_clients = 0
    /\ status_lock = Free
    /\ active_connections = <<>>
    /\ lock = Free
    /\ clock = 0
    /\ ws_state = [c \in Conns |-> "CONNECTING"]
    /\ inbox = [c \in Conns |-> <<>>]
    /\ calls = [t \in Frames |-> IdleCall]
    /\ ncalls = 0
    /\ bcast = [b \in BroadcastSlots |-> IdleBroadcast]
    /\ nbcast = 0
    /\ handlers = [h \in RacingSlots |-> IdleHandler]
    /\ nrequests = 0
    /\ heartbeat = IdleHeartbeat
    /\ updater = IdleUpdater

InitStocked ==
    /\ InitRuntime
    /\ products = [id \in ProductIds |-> StockedProduct]
    /\ categories = [id \in CategoryIds |-> NoCategory]
    /\ next_category_id = 1
    /\ next_product_id = 1 + Cardinality(ProductIds)

NextRegistry ==
    \/ ApiConnect
    \/ ApiDisconnect
    \/ ApiStep

SpecRegistry == Init /\ [][NextRegistry]_vars

\* two clients and concurrent broadcasts
Next ==
    \/ EndpointOpenTwo
    \/ EndpointDisconnect
    \/ EndpointReceiveRaises
    \/ EndpointStep
    \/ ApiBroadcast
    \/ BroadcastStep

Spec == Init /\ [][Next]_vars

\* two clients come and go; the event loop runs every coroutine that is
\* ready, so a step of an endpoint that stays possible is taken
NextLifecycle ==
    \/ EndpointOpenTwo
    \/ EndpointDisconnect
    \/ EndpointReceiveRaises
    \/ EndpointStep

SpecLifecycle ==
    /\ Init
    /\ [][NextLifecycle]_vars
    /\ WF_vars(EndpointStep)

\* three clients and broadcasts one after the other
NextEndpoint ==
    \/ EndpointOpen
    \/ EndpointDisconnect
    \/ EndpointReceiveRaises
    \/ EndpointStep
    \/ ApiBroadcastInTurn
    \/ BroadcastStep

SpecEndpoint == Init /\ [][NextEndpoint]_vars

\* the product handlers, while two clients connect
NextCrud ==
    \/ EndpointOpenTwo
    \/ EndpointConnectStep
    \/ CreateProduct
    \/ UpdateProduct
    \/ HandlerStep
    \/ BroadcastStep

SpecCrud == Init /\ [][NextCrud]_vars

\* the heartbeat until it is cancelled, while a client connects; every send
\* returns or raises.  The event loop runs every coroutine that is ready,
\* and asyncio.Lock wakes its waiters in turn, so a step that stays possible
\* is taken.
NextTicking ==
    \/ HeartbeatStart
    \/ HeartbeatStep
    \/ HeartbeatCancel
    \/ EndpointOpenOne
    \/ EndpointConnectStep
    \/ BroadcastStep

SpecTicking ==
    /\ Init
    /\ [][NextTicking]_vars
    /\ WF_vars(HeartbeatStep)
    /\ WF_vars(BroadcastStep)
    /\ WF_vars(EndpointConnectStep)

\* the tables with a category and a product filed under it
InitFiled ==
    /\ InitRuntime
    /\ products = [id \in ProductIds |-> [StockedProduct EXCEPT !.category_id = 1]]
    /\ categories = [id \in CategoryIds |->
                        IF id = 1 THEN [exists |-> TRUE, name |-> "Parts"]
                        ELSE NoCategory]
    /\ next_product_id = 1 + Cardinality(ProductIds)
    /\ next_category_id = 2

\* requests on products and categories, one at a time, while a client
\* connects
NextReferences ==
    \/ EndpointOpenOne
    \/ EndpointConnectStep
    \/ CreateCategory
    \/ DeleteCategory
    \/ CreateProductWithZero
    \/ UpdateProduct
    \/ CategoryStep
    \/ HandlerStep
    \/ BroadcastStep

SpecReferences == (Init \/ InitFiled) /\ [][NextReferences]_vars

\* create_category and update_category, two requests at a time, while a
\* client connects
NextRacing ==
    \/ EndpointOpenOne
    \/ EndpointConnectStep
    \/ RacingCreateCategory
    \/ RacingUpdateCategory
    \/ RacingStep
    \/ BroadcastStep

SpecRacing == (Init \/ InitFiled) /\ [][NextRacing]_vars

\* creates, and updates that leave quantity unset, while a client connects
NextOtherFields ==
    \/ EndpointOpenOne
    \/ EndpointConnectStep
    \/ CreateProduct
    \/ UpdateProduct
    \/ OtherFieldsStep
    \/ BroadcastStep

SpecOtherFields == (Init \/ InitStocked) /\ [][NextOtherFields]_vars

\* the handlers of products and categories, while a client connects
NextCatalog ==
    \/ EndpointOpenOne
    \/ EndpointConnectStep
    \/ CreateCategory
    \/ CreateProduct
    \/ UpdateProduct
    \/ DeleteProduct
    \/ HandlerStep
    \/ CatalogStep
    \/ BroadcastStep

SpecCatalog == Init /\ [][NextCatalog]_vars

\* the handlers of products, reads included, on empty or stocked tables,
\* while a client connects
NextProducts ==
    \/ EndpointOpenOne
    \/ EndpointConnectStep
    \/ CreateProduct
    \/ UpdateProduct
    \/ DeleteProduct
    \/ ReadProduct
    \/ ReadProducts
    \/ HandlerStep
    \/ DeleteProductStep
    \/ ReadStep
    \/ BroadcastStep

SpecProducts == (Init \/ InitStocked) /\ [][NextProducts]_vars

\* create_product while two clients connect, one of which may never read.
\* The event loop runs every coroutine that is ready, so a step that stays
\* possible is taken; nothing makes a client read.
NextSlow ==
    \/ EndpointOpenTwo
    \/ EndpointConnectStep
    \/ CreateProduct
    \/ CreateProductStep
    \/ BroadcastStep
    \/ BroadcastHang

SpecSlow ==
    /\ Init
    /\ [][NextSlow]_vars
    /\ WF_vars(EndpointConnectStep)
    /\ WF_vars(CreateProductStep)
    /\ WF_vars(BroadcastStep)

\* the heartbeat, while a client comes and goes and the status label is set
NextHeartbeat ==
    \/ HeartbeatStart
    \/ HeartbeatStep
    \/ Tick
    \/ UpdateStatusCall
    \/ UpdateStatusLock
    \/ UpdateStatusBody
    \/ EndpointOpenOne
    \/ EndpointDisconnect
    \/ EndpointStep
    \/ BroadcastStep

SpecHeartbeat == Init /\ [][NextHeartbeat]_vars

\* the heartbeat and its cancellation at shutdown, while two clients connect
NextShutdown ==
    \/ HeartbeatStart
    \/ HeartbeatStep
    \/ HeartbeatCancel
    \/ EndpointOpenTwo
    \/ EndpointConnectStep
    \/ BroadcastStep

SpecShutdown == Init /\ [][NextShutdown]_vars

\* ------------------------------------------------------------------ claims
Quiescent == \A t \in Frames : Resting(t)

\* the attempts of the broadcast frame f at connection c
Attempts(f, c) == Cardinality({j \in 1..Len(f.log) : f.log[j][1] = c})

\* the step of broadcast b in which a send_json to c raised
SendRaisedAt(b, c) ==
    /\ Len(bcast'[b].log) = Len(bcast[b].log) + 1
    /\ bcast'[b].log[Len(bcast'[b].log)] = <<c, "failed">>

\* the step of broadcast b that takes the copy of the list
CopyTakenBy(b) ==
    /\ bcast[b].pc = "copy"
    /\ bcast'[b].pc # "copy"

\* C1: once every connect and disconnect call has ended, the client counter
\* equals the number of entries of active_connections.
C1_CounterMatchesRegistry ==
    Quiescent => connected_clients = Len(active_connections)

\* C2: the client counter is never negative, also after more decrements than
\* increments.
C2_CounterNonNegative == connected_clients >= 0

\* a disconnect returned although no connect ever got as far as its handshake
C2_DecrementAtZero ==
    /\ \E t \in ApiSlots : calls[t].op = "disconnect" /\ calls[t].pc = "done"
    /\ \A c \in Conns : ws_state[c] = "CONNECTING"
    /\ connected_clients = 0

\* C3: a broadcast attempts a send to every connection of the copy it took of
\* active_connections, in the order of the copy, and to no other connection:
\* a connection appended after the copy gets nothing of that call.
C3_SnapshotDelivery ==
    /\ [](\A b \in BroadcastSlots :
            /\ bcast[b].pc \in {"send", "done"} =>
                  /\ Len(bcast[b].log) <= Len(bcast[b].connections)
                  /\ \A j \in 1..Len(bcast[b].log) :
                        bcast[b].log[j][1] = bcast[b].connections[j]
            /\ bcast[b].pc = "done" => Len(bcast[b].log) = Len(bcast[b].connections)
            /\ \A c \in Conns :
                  Count(inbox[c], b) > 0 => c \in Range(bcast[b].connections))
    /\ [][\A b \in BroadcastSlots :
            CopyTakenBy(b) => bcast'[b].connections = active_connections]_vars

\* a broadcast has ended, and a connection registered since it took its copy
\* got nothing of it
C3_RegisteredAfterCopy ==
    \E b \in BroadcastSlots, c \in Conns :
        /\ bcast[b].pc = "done"
        /\ bcast[b].connections # <<>>
        /\ c \in Range(active_connections)
        /\ c \notin Range(bcast[b].connections)
        /\ Attempts(bcast[b], c) = 0

\* C4: a send that raises does not end the loop: every connection of the copy
\* after the failing one is still attempted.
C4_FailureDoesNotSkip ==
    \A b \in BroadcastSlots :
        \A i \in 1..Len(bcast[b].log) :
            (bcast[b].log[i][2] = "failed" /\ bcast[b].pc = "done") =>
                \A j \in (i + 1)..Len(bcast[b].connections) :
                    /\ j <= Len(bcast[b].log)
                    /\ bcast[b].log[j][1] = bcast[b].connections[j]

\* the first send of a broadcast raised and the second was made
C4_SentAfterFailure ==
    \E b \in BroadcastSlots :
        /\ bcast[b].pc = "done"
        /\ Len(bcast[b].log) >= 2
        /\ bcast[b].log[1][2] = "failed"
        /\ bcast[b].log[2][2] = "sent"

\* C5: a send that raises never makes broadcast raise, and never changes how
\* a handler ends: a request that committed answers 200, and the one error
\* after a commit, the TypeError of comparing a null quantity or threshold,
\* comes from the row and not from a send.
C5_SendFailureNotPropagated ==
    /\ \A b \in BroadcastSlots :
          /\ bcast[b].result # "raised"
          /\ bcast[b].pc = "done" => bcast[b].result = "returned"
    /\ \A h \in HandlerSlots :
          /\ handlers[h].error # "broadcast"
          /\ (handlers[h].pc = "done" /\ handlers[h].committed) =>
                LET row == products[handlers[h].product_id] IN
                   IF handlers[h].op = "update_product"
                      /\ (row.quantity = NoneInt \/ row.low_stock_threshold = NoneInt)
                   THEN handlers[h].result = 500 /\ handlers[h].error = "TypeError"
                   ELSE handlers[h].result = 200

\* a request answered 200 although every send of its last broadcast, to two
\* connections, raised
C5_SucceededDespiteFailures ==
    \E h \in HandlerSlots, b \in BroadcastSlots :
        /\ handlers[h].pc = "done"
        /\ handlers[h].committed
        /\ handlers[h].result = 200
        /\ bcast[b].caller = Task(h)
        /\ Len(bcast[b].log) = 2
        /\ \A j \in 1..2 : bcast[b].log[j][2] = "failed"

\* C6: an update answered 200 has broadcast product_updated once, with the
\* row as it is after the update, and after it one alert with the name and
\* quantity of that row exactly when its quantity is below its threshold.
C6_AlertIffBelowThreshold ==
    \A h \in HandlerSlots :
        /\ handlers[h].op = "update_product" =>
              Cardinality({j \in 1..Len(handlers[h].published) :
                              handlers[h].published[j].type = "alert"}) <= 1
        /\ (handlers[h].op = "update_product" /\ handlers[h].pc = "done"
              /\ handlers[h].result = 200) =>
              LET id == handlers[h].product_id
                  row == products[id]
                  updated == [type |-> "product_updated",
                              product |-> [id |-> id, name |-> row.name,
                                           quantity |-> row.quantity,
                                           low_stock_threshold |-> row.low_stock_threshold,
                                           category_id |-> row.category_id]]
                  alert == [type |-> "alert", product |-> row.name,
                            quantity |-> row.quantity]
              IN handlers[h].published =
                    IF row.quantity < row.low_stock_threshold
                    THEN <<updated, alert>> ELSE <<updated>>

\* an update answered 200 after broadcasting product_updated and an alert
C6_AlertBroadcast ==
    \E h \in HandlerSlots :
        /\ handlers[h].op = "update_product"
        /\ handlers[h].pc = "done"
        /\ handlers[h].result = 200
        /\ Len(handlers[h].published) = 2
        /\ handlers[h].published[2].type = "alert"
        /\ handlers[h].published[2].product = "Gadget"
        /\ handlers[h].published[2].quantity = 0

\* C8: the message of a heartbeat tick carries the counter as it is when
\* get_status reads it and a timestamp not before that of the tick before,
\* and that message is what the tick broadcasts.
C8_TickCarriesCurrentStatus ==
    /\ [][(heartbeat.pc = "get_status_cs" /\ heartbeat'.pc # "get_status_cs") =>
            /\ heartbeat'.status_message.connected_clients = connected_clients
            /\ heartbeat'.status_message.timestamp = timestamp
            /\ heartbeat.ticks > 0 =>
                  heartbeat'.status_message.timestamp >= heartbeat.status_message.timestamp]_vars
    /\ [](heartbeat.pc = "broadcast" =>
            \E b \in BroadcastSlots :
                /\ bcast[b].caller = HeartbeatTask
                /\ bcast[b].message = heartbeat.status_message)

\* the second tick carries a later timestamp than the first could, and a
\* client
C8_SecondTick ==
    /\ heartbeat.ticks = 1
    /\ heartbeat.pc = "broadcast"
    /\ heartbeat.status_message.timestamp = MaxClock
    /\ heartbeat.status_message.connected_clients = 1
    /\ heartbeat.status_message.status = "Offline"

\* C7: a connection whose disconnect has returned is in no copy taken
\* afterwards, every registered connection is in a copy exactly once and is
\* attempted exactly once; with A, B, C connected and B disconnected the
\* counter is 2 and the registry holds A and C.
DisconnectReturned(c) ==
    /\ calls[Ep(c)].op = "disconnect"
    /\ calls[Ep(c)].pc = "done"

C7_DisconnectedGetsNothing ==
    /\ [](\A b \in BroadcastSlots, c \in Conns :
            /\ Count(bcast[b].connections, c) <= 1
            /\ Attempts(bcast[b], c) <= Count(bcast[b].connections, c)
            /\ bcast[b].pc = "done" =>
                  Attempts(bcast[b], c) = Count(bcast[b].connections, c))
    /\ []((Receiving("A") /\ DisconnectReturned("B") /\ Receiving("C")) =>
            /\ connected_clients = 2
            /\ Len(active_connections) = 2
            /\ Range(active_connections) = {"A", "C"})
    /\ [][\A b \in BroadcastSlots : CopyTakenBy(b) =>
            \A c \in Conns :
                /\ DisconnectReturned(c) => c \notin Range(bcast'[b].connections)
                /\ c \in Range(active_connections) =>
                      Count(bcast'[b].connections, c) = 1]_vars

\* A, B and C connected, B disconnected, and a broadcast sent once to A and
\* once to C
C7_WidgetScenario ==
    /\ Receiving("A") /\ DisconnectReturned("B") /\ Receiving("C")
    /\ connected_clients = 2
    /\ bcast[1].pc = "done"
    /\ bcast[1].message.name = "Widget"
    /\ Range(bcast[1].log) = {<<"A", "sent">>, <<"C", "sent">>}
    /\ Len(bcast[1].log) = 2
    /\ inbox["A"] = <<1>> /\ inbox["B"] = <<>> /\ inbox["C"] = <<1>>

\* C9: a disconnect of a connection that is not in active_connections leaves
\* the list as it is and raises nothing; after any disconnect the connection
\* is not in the list, so a second disconnect changes nothing.
C9_AbsentDisconnectNoOp ==
    /\ [](\A t \in Frames : calls[t].op = "disconnect" => calls[t].result # "raised")
    /\ [][\A t \in Frames :
            (calls[t].pc = "remove" /\ calls'[t].pc = "decrement") =>
                /\ calls[t].ws \notin Range(active_connections) =>
                      active_connections' = active_connections
                /\ calls[t].ws \notin Range(active_connections')]_vars

\* a disconnect of a connection that never connected went through its
\* critical section while another connection was registered
C9_AbsentDisconnectActed ==
    \E t \in Frames :
        /\ calls[t].op = "disconnect"
        /\ calls[t].pc = "decrement"
        /\ ws_state[calls[t].ws] = "CONNECTING"
        /\ active_connections # <<>>

\* C10 as stated: a connection whose send raised is removed from
\* active_connections by the broadcast.
C10_FailedSendUnregisters ==
    [][\A b \in BroadcastSlots, c \in Conns :
          SendRaisedAt(b, c) => c \notin Range(active_connections')]_vars

\* C10 as amended: a send that raises leaves active_connections as it is,
\* and the copy of a later broadcast is the whole list, the connection whose
\* send raised included.
C10_FailedSendStaysRegistered ==
    [][\A b \in BroadcastSlots :
          /\ \A c \in Conns :
                SendRaisedAt(b, c) => active_connections' = active_connections
          /\ CopyTakenBy(b) => bcast'[b].connections = active_connections']_vars

\* a broadcast ended with a failed send to a connection that is still
\* registered when the next broadcast is about to take its copy
C10_StillRegisteredForNext ==
    \E b \in BroadcastSlots, d \in BroadcastSlots, c \in Conns :
        /\ b # d
        /\ bcast[b].pc = "done"
        /\ \E j \in 1..Len(bcast[b].log) : bcast[b].log[j] = <<c, "failed">>
        /\ bcast[d].pc = "copy"
        /\ c \in Range(active_connections)

\* C11: when a send of a broadcast never completes, every other connection
\* of the copy is still sent the message, sooner or later.
C11_SlowClientDoesNotBlock ==
    \A b \in BroadcastSlots : \A c \in Conns :
        []((/\ bcast[b].pc = "hung"
            /\ c \in Range(bcast[b].connections)
            /\ c # bcast[b].connections[bcast[b].i])
           => <>(Attempts(bcast[b], c) > 0))

\* C12: a handler that has committed reaches its return, also when a send of
\* its broadcast never completes.
C12_CommittedHandlerReturns ==
    \A h \in HandlerSlots :
        [](handlers[h].committed => <>(handlers[h].pc = "done"))

\* the tasks inside the critical section of a ServerStatus operation
InStatusSection ==
    {t \in Frames : calls[t].pc \in {"increment_cs", "decrement_cs"}}
        \cup (IF updater.pc = "cs" THEN {UpdateStatusTask} ELSE {})
        \cup (IF heartbeat.pc \in {"refresh_cs", "get_status_cs"}
              THEN {HeartbeatTask} ELSE {})

\* C13: at most one ServerStatus operation is inside its critical section,
\* and it is the holder of the lock; the three fields change only in a step
\* of the holder; the dict get_status returns is the three fields as they
\* stand together in the state it reads.
C13_StatusOperationsExclusive ==
    /\ [](/\ Cardinality(InStatusSection) <= 1
          /\ \A t \in InStatusSection : status_lock = t
          /\ InStatusSection = {} => status_lock = Free)
    /\ [][<<status, timestamp, connected_clients>>' # <<status, timestamp, connected_clients>>
            => (status_lock \in InStatusSection /\ status_lock' = Free)]_vars
    /\ [][(heartbeat.pc = "get_status_cs" /\ heartbeat'.pc # "get_status_cs") =>
            /\ heartbeat'.status_message =
                  [type |-> "status", status |-> status, timestamp |-> timestamp,
                   connected_clients |-> connected_clients]
            /\ <<status, timestamp, connected_clients>>' =
                  <<status, timestamp, connected_clients>>]_vars

\* get_status is in its critical section while update_status and a client
\* counter operation wait for the lock
C13_ContendedRead ==
    /\ heartbeat.pc = "get_status_cs"
    /\ updater.pc = "lock"
    /\ \E t \in Frames : calls[t].pc \in {"increment", "decrement"}

\* C14: a broadcast that is sending and a connect that is in its handshake
\* do not hold ConnectionManager._lock: the lock is held only by a task
\* inside the append, the remove or the copy.
C14_LockNotHeldAcrossNetwork ==
    /\ \A b \in BroadcastSlots :
          /\ bcast[b].pc \in {"send", "hung"} => lock # BroadcastTask(b)
          /\ lock = BroadcastTask(b) => bcast[b].pc = "copy"
    /\ \A t \in Frames :
          /\ calls[t].pc = "accept" => lock # t
          /\ lock = t => calls[t].pc \in {"append", "remove"}

\* the first send of a broadcast to A is pending, and since the copy was
\* taken B has connected and A has disconnected
C14_RegistryMovedDuringSend ==
    \E b \in BroadcastSlots :
        /\ bcast[b].pc = "send"
        /\ bcast[b].connections = <<"A">>
        /\ bcast[b].i = 1
        /\ Receiving("B")
        /\ DisconnectReturned("A")
        /\ active_connections = <<"B">>
        /\ lock = Free

\* C15: when the heartbeat task is cancelled inside a pass of its broadcast,
\* the pass is finished before the task ends: no connection of the copy
\* after the one being sent to is left without an attempt.
C15_CancelledBroadcastFinishesPass ==
    heartbeat.pc = "cancelled" =>
        \A b \in BroadcastSlots :
            (bcast[b].caller = HeartbeatTask /\ bcast[b].result = "cancelled") =>
                bcast[b].i >= Len(bcast[b].connections)

\* the broadcasts of the heartbeat that have been called and have not ended
HeartbeatInFlight ==
    {b \in BroadcastSlots :
        bcast[b].caller = HeartbeatTask /\ bcast[b].pc \notin {"idle", "done"}}

\* C16: a tick is refresh_timestamp, get_status, the broadcast of the status
\* read and the sleep, in this order; no tick starts before the broadcast of
\* the tick before has returned, so at most one broadcast of the heartbeat
\* is in flight.
C16_TicksInOrderNoOverlap ==
    /\ [](/\ Cardinality(HeartbeatInFlight) <= 1
          /\ heartbeat.pc # "broadcast" => HeartbeatInFlight = {})
    /\ [][heartbeat'.pc # heartbeat.pc =>
            <<heartbeat.pc, heartbeat'.pc>> \in
                {<<"idle", "refresh">>, <<"refresh", "refresh_cs">>,
                 <<"refresh_cs", "get_status">>, <<"get_status", "get_status_cs">>,
                 <<"get_status_cs", "broadcast">>, <<"broadcast", "sleep">>,
                 <<"sleep", "refresh">>}]_vars
    /\ [][(heartbeat.pc = "refresh_cs" /\ heartbeat'.pc = "get_status") =>
            timestamp' = clock]_vars
    /\ [][(heartbeat.pc = "get_status_cs" /\ heartbeat'.pc = "broadcast") =>
            \E b \in BroadcastSlots :
                /\ bcast[b].pc \in {"idle", "done"}
                /\ bcast'[b].pc = "lock"
                /\ bcast'[b].caller = HeartbeatTask
                /\ bcast'[b].message = heartbeat'.status_message]_vars
    /\ [][(heartbeat.pc = "broadcast" /\ heartbeat'.pc = "sleep") =>
            \E b \in BroadcastSlots :
                /\ bcast[b].caller = HeartbeatTask
                /\ bcast[b].pc = "done"
                /\ bcast[b].result = "returned"]_vars

\* the second tick refreshes the timestamp after the broadcast of the first,
\* which sent to a client, has returned
C16_SecondTickAfterFirst ==
    /\ heartbeat.ticks = 1
    /\ heartbeat.pc = "refresh_cs"
    /\ \E b \in BroadcastSlots :
          /\ bcast[b].caller = HeartbeatTask
          /\ bcast[b].pc = "done"
          /\ Len(bcast[b].log) = 1

\* broadcast b comes before broadcast x in what connection c received
ReceivedBefore(c, b, x) ==
    \E j \in 1..Len(inbox[c]) : \E k \in (j + 1)..Len(inbox[c]) :
        inbox[c][j] = b /\ inbox[c][k] = x

\* C17: what a connection receives of two broadcasts follows the order of
\* their copies only when the first had ended before the second took its
\* copy; two broadcasts in flight together are bound to no order.
C17_OrderOnlyWhenNotConcurrent ==
    \A b \in BroadcastSlots, x \in BroadcastSlots, c \in Conns :
        (b # x /\ bcast[b].others[x] = "ended") => ~ReceivedBefore(c, b, x)

\* broadcast b took its copy while broadcast x, which had taken its own, was
\* sending; one connection of both copies received x before b and another
\* received b before x
C17_BothOrders ==
    \E b \in BroadcastSlots, x \in BroadcastSlots, c \in Conns, d \in Conns :
        /\ b # x
        /\ bcast[b].others[x] = "running"
        /\ {c, d} \subseteq Range(bcast[b].connections) \cap Range(bcast[x].connections)
        /\ inbox[c] = <<x, b>>
        /\ inbox[d] = <<b, x>>

\* the message m of handler frame f carries what the tables hold
PostCommitValues(f, m) ==
    IF m.type \in {"product_created", "product_updated"}
    THEN /\ m.product.id = f.product_id
         /\ products[m.product.id].exists
         /\ m.product.name = products[m.product.id].name
         /\ m.product.quantity = products[m.product.id].quantity
         /\ m.product.low_stock_threshold = products[m.product.id].low_stock_threshold
         /\ m.product.category_id = products[m.product.id].category_id
    ELSE IF m.type = "alert"
    THEN /\ m.product = products[f.product_id].name
         /\ m.quantity = products[f.product_id].quantity
    ELSE IF m.type = "product_deleted"
    THEN /\ m.product_id = f.product_id
         /\ ~products[m.product_id].exists
    ELSE /\ m.type = "category_created"
         /\ categories[m.category.id].exists
         /\ m.category.name = categories[m.category.id].name

\* C18: a handler calls broadcast only after its commit, with the values the
\* tables hold after it; the tables change only in the commit of a request
\* that goes on, and a request answered 404 or 400 has neither committed nor
\* broadcast.
C18_BroadcastOnlyAfterCommit ==
    /\ [](\A h \in HandlerSlots :
            /\ handlers[h].published # <<>> => handlers[h].committed
            /\ (handlers[h].pc = "done" /\ handlers[h].result \in {400, 404}) =>
                  (~handlers[h].committed /\ handlers[h].published = <<>>)
            /\ (handlers[h].pc = "done" /\ handlers[h].result = 200) =>
                  (handlers[h].committed /\ handlers[h].published # <<>>))
    /\ [][dbVars' # dbVars =>
            \E h \in HandlerSlots :
                /\ ~handlers[h].committed
                /\ handlers'[h].committed
                /\ handlers'[h].pc # "done"]_vars
    /\ [][\A h \in HandlerSlots :
            Len(handlers'[h].published) > Len(handlers[h].published) =>
                /\ handlers[h].committed
                /\ dbVars' = dbVars
                /\ PostCommitValues(handlers[h],
                        handlers'[h].published[Len(handlers'[h].published)])]_vars

\* an update of a product that is there, to a category that is not, was
\* answered 404 and broadcast nothing
C18_RejectedUpdate ==
    \E h \in HandlerSlots :
        /\ handlers[h].op = "update_product"
        /\ handlers[h].pc = "done"
        /\ handlers[h].result = 404
        /\ handlers[h].error = "Category not found"
        /\ products[handlers[h].product_id].exists
        /\ handlers[h].published = <<>>

\* the receive loop of the endpoint of c has ended
ReceiveLoopEnded(c) == calls[Ep(c)].op \in {"disconnect", "receive"}

\* C19: once the receive loop of a connection has ended, by a disconnect of
\* the client or by a receive that fails, the endpoint sooner or later has
\* removed the connection from active_connections and returned from
\* disconnect.
C19_EndedLoopUnregisters ==
    \A c \in Conns :
        [](ReceiveLoopEnded(c) =>
              <>(DisconnectReturned(c) /\ c \notin Range(active_connections)))

\* C20: refresh_timestamp changes the timestamp alone; update_status sets
\* the label and the timestamp in one step and leaves the counter;
\* increment_clients and decrement_clients leave the label; get_status
\* changes nothing; no operation of the status store changes
\* active_connections.
C20_StatusFrameConditions ==
    /\ [][(heartbeat.pc = "refresh_cs" /\ heartbeat'.pc # "refresh_cs") =>
            /\ timestamp' = clock
            /\ status' = status
            /\ connected_clients' = connected_clients
            /\ active_connections' = active_connections]_vars
    /\ [][(updater.pc = "cs" /\ updater'.pc # "cs") =>
            /\ status' = updater.status
            /\ timestamp' = clock
            /\ connected_clients' = connected_clients
            /\ active_connections' = active_connections]_vars
    /\ [][\A t \in Frames :
            (calls[t].pc \in {"increment_cs", "decrement_cs"} /\ calls'[t].pc = "done") =>
                /\ status' = status
                /\ timestamp' = clock
                /\ connected_clients' =
                      IF calls[t].pc = "increment_cs"
                      THEN connected_clients + 1
                      ELSE (IF connected_clients = 0 THEN 0 ELSE connected_clients - 1)
                /\ active_connections' = active_connections]_vars
    /\ [][(heartbeat.pc = "get_status_cs" /\ heartbeat'.pc # "get_status_cs") =>
            /\ <<status, timestamp, connected_clients>>' =
                  <<status, timestamp, connected_clients>>
            /\ active_connections' = active_connections]_vars
    /\ [][status' # status => (updater.pc = "cs" /\ updater'.pc # "cs")]_vars

\* refresh_timestamp has just returned: the timestamp is the last reading of
\* the clock, and the label set by update_status and the counter are as
\* they were
C20_RefreshedOffline ==
    /\ heartbeat.pc = "get_status"
    /\ timestamp = MaxClock
    /\ status = "Offline"
    /\ connected_clients = 1
    /\ active_connections = <<"A">>

\* table products holds a row of this id
Stored(id) == id \in ProductIds /\ products[id].exists

\* C21: an id the sequence has not handed out yet has no row, and an id
\* whose row was deleted never has one again; read_product of an id without
\* a row answers 404 "Product not found", and so does delete_product, which
\* then broadcasts nothing.
C21_DeletedOrAbsentIsNotFound ==
    /\ [](\A id \in ProductIds : id >= next_product_id => ~products[id].exists)
    /\ [][\A id \in ProductIds :
            (id < next_product_id /\ ~products[id].exists) => ~products'[id].exists]_vars
    /\ [][\A h \in HandlerSlots :
            (handlers[h].pc = "select_read" /\ handlers'[h].pc # "select_read") =>
                /\ handlers'[h].pc = "done"
                /\ IF Stored(handlers[h].product_id)
                   THEN /\ handlers'[h].result = 200
                        /\ handlers'[h].row = products[handlers[h].product_id]
                   ELSE /\ handlers'[h].result = 404
                        /\ handlers'[h].error = "Product not found"]_vars
    /\ [][\A h \in HandlerSlots :
            (handlers[h].pc = "select_delete" /\ handlers'[h].pc # "select_delete"
                /\ ~Stored(handlers[h].product_id)) =>
                /\ handlers'[h].pc = "done"
                /\ handlers'[h].result = 404
                /\ handlers'[h].error = "Product not found"
                /\ handlers'[h].published = <<>>
                /\ bcast' = bcast
                /\ products' = products]_vars
    /\ [](\A h \in HandlerSlots :
            (handlers[h].op = "delete_product" /\ handlers[h].pc = "done"
                /\ handlers[h].result = 404) => handlers[h].published = <<>>)

\* the second delete_product of id 1, whose row the first deleted, was
\* answered 404 and broadcast nothing
C21_SecondDelete ==
    \E h \in HandlerSlots :
        /\ handlers[h].op = "delete_product"
        /\ handlers[h].pc = "done"
        /\ handlers[h].product_id = 1
        /\ handlers[h].result = 404
        /\ handlers[h].published = <<>>
        /\ next_product_id > 1
        /\ ~products[1].exists

\* the names create_product is asked to store
SubmittedNames == {body.name : body \in ProductCreateBodies}

\* the step in which the select of read_product returns
ReadReturns(h) ==
    /\ handlers[h].pc = "select_read"
    /\ handlers'[h].pc = "done"

AppendedNotCounted ==
    {t \in Frames : calls[t].op = "connect"
                       /\ calls[t].pc \in {"increment", "increment_cs"}}

\* the disconnect calls that have removed and not yet decremented
RemovedNotCounted ==
    {t \in Frames : calls[t].op = "disconnect"
                       /\ calls[t].pc \in {"decrement", "decrement_cs"}}

\* C23: with every connection connected once and disconnected at most once,
\* after its connect returned, the counter is the length of the registry,
\* less the connects that have appended and not yet incremented, plus the
\* disconnects that have removed and not yet decremented; no decrement
\* finds the counter at zero.
C23_CounterTracksRegistry ==
    /\ connected_clients =
          Len(active_connections) - Cardinality(AppendedNotCounted)
                                  + Cardinality(RemovedNotCounted)
    /\ \A t \in Frames : calls[t].pc = "decrement_cs" => connected_clients >= 1

\* one connect has appended and not incremented while one disconnect has
\* removed and not decremented, with a third connection registered
C23_BothPending ==
    /\ calls[Ep("C")].pc = "increment"
    /\ calls[Ep("B")].pc = "decrement_cs"
    /\ Receiving("A")
    /\ connected_clients = 2
    /\ Len(active_connections) = 2

\* the connect of the endpoint of c ended in its handshake
AcceptFailed(c) ==
    /\ calls[Ep(c)].op = "connect"
    /\ calls[Ep(c)].result = "raised"

\* C24: a connect whose accept raises appends nothing and increments
\* nothing; a connection is appended only with its handshake done, and the
\* counter is incremented only by a connect that has appended its
\* connection.
C24_FailedHandshakeNotRegistered ==
    /\ [](\A c \in Conns :
            /\ c \in Range(active_connections) => ws_state[c] = "CONNECTED"
            /\ AcceptFailed(c) =>
                  (c \notin Range(active_connections) /\ ws_state[c] = "CONNECTING"))
    /\ [][\A t \in Frames :
            (calls[t].pc = "accept" /\ calls'[t].pc = "done") =>
                /\ calls'[t].result = "raised"
                /\ active_connections' = active_connections
                /\ connected_clients' = connected_clients]_vars
    /\ [][\A t \in Frames :
            (calls[t].pc = "append" /\ calls'[t].pc # "append") =>
                /\ ws_state[calls[t].ws] = "CONNECTED"
                /\ active_connections' = Append(active_connections, calls[t].ws)]_vars
    /\ [][connected_clients' > connected_clients =>
            \E t \in Frames :
                /\ calls[t].op = "connect"
                /\ calls[t].pc = "increment_cs"
                /\ calls[t].ws \in Range(active_connections)
                /\ connected_clients' = connected_clients + 1]_vars

\* the handshake of A failed and B is registered: the registry and the
\* counter hold B alone
C24_OneFailedOneRegistered ==
    /\ AcceptFailed("A")
    /\ Receiving("B")
    /\ active_connections = <<"B">>
    /\ connected_clients = 1

\* C25: with every send returning or raising, every broadcast call ends, and
\* the heartbeat, once started, goes from each tick to the next unless it is
\* cancelled; a send that raises never ends the loop.
C25_HeartbeatKeepsTicking ==
    /\ \A b \in BroadcastSlots :
          [](bcast[b].pc \in {"lock", "copy", "send"} => <>(bcast[b].pc = "done"))
    /\ \A k \in 0..(MaxTicks - 1) :
          []((heartbeat.pc # "idle" /\ heartbeat.ticks = k) =>
                <>(heartbeat.ticks = k + 1 \/ heartbeat.pc = "cancelled"))
    /\ [](heartbeat.pc # "raised")

\* the second tick has begun after the send of the first tick raised
C25_TickAfterFailedSend ==
    /\ heartbeat.ticks = 1
    /\ heartbeat.pc = "refresh_cs"
    /\ \E b \in BroadcastSlots :
          /\ bcast[b].caller = HeartbeatTask
          /\ bcast[b].pc = "done"
          /\ bcast[b].log = <<<<"A", "failed">>>>

\* C26: an update that leaves quantity unset leaves the stored quantity as it
\* was and, answered 200 with that quantity below the threshold the row then
\* has, has broadcast exactly one alert after product_updated; and whenever
\* update_product starts the broadcast of an alert, its broadcast of
\* product_updated has ended and no other broadcast of it is in flight.
C26_AlertOnEveryUpdateInOrder ==
    /\ [][\A id \in ProductIds :
            (products[id].exists /\ products'[id].exists) =>
                products'[id].quantity = products[id].quantity]_vars
    /\ [](\A h \in HandlerSlots :
            (handlers[h].op = "update_product" /\ handlers[h].pc = "done"
               /\ handlers[h].result = 200
               /\ products[handlers[h].product_id].quantity <
                      products[handlers[h].product_id].low_stock_threshold) =>
                /\ Len(handlers[h].published) = 2
                /\ handlers[h].published[1].type = "product_updated"
                /\ handlers[h].published[2].type = "alert")
    /\ [][\A h \in HandlerSlots :
            (handlers[h].pc # "broadcast_alert" /\ handlers'[h].pc = "broadcast_alert") =>
                /\ handlers[h].op = "update_product"
                /\ Len(handlers[h].published) = 1
                /\ \A b \in BroadcastSlots :
                      bcast[b].caller = Task(h) =>
                          /\ bcast[b].pc = "done"
                          /\ bcast[b].message = handlers[h].published[1]
                /\ \E b \in BroadcastSlots :
                      /\ bcast'[b].caller = Task(h)
                      /\ bcast'[b].pc # "done"
                      /\ bcast'[b].message.type = "alert"]_vars

\* an update of the name alone of a product with quantity 0 and threshold 1
\* has been answered 200 after product_updated and one alert
C26_RenameAlerts ==
    \E h \in HandlerSlots :
        /\ handlers[h].op = "update_product"
        /\ handlers[h].pc = "done"
        /\ handlers[h].result = 200
        /\ products[handlers[h].product_id] =
              [StockedProduct EXCEPT !.name = "Gadget"]
        /\ Len(handlers[h].published) = 2
        /\ handlers[h].published[2].type = "alert"
        /\ nrequests = 1

\* C27: between requests every stored product has a category_id that is null
\* or the id of a stored category; a step of create_product or update_product
\* whose requested category is not stored ends the request with 404; and
\* delete_category, where it commits, writes null to exactly the products of
\* the category, and answered 200 has broadcast category_deleted once and
\* nothing else.
C27_CategoryReferencesValid ==
    /\ []((\A h \in HandlerSlots : HandlerResting(h)) =>
            \A p \in ProductIds :
                products[p].exists =>
                    \/ products[p].category_id = NoneInt
                    \/ /\ products[p].category_id \in CategoryIds
                       /\ categories[products[p].category_id].exists)
    /\ [][\A h \in HandlerSlots :
            (/\ handlers[h].op \in {"create_product", "update_product"}
             /\ handlers[h].pc \in {"check_category", "commit"}
             /\ handlers[h].row.category_id # NoneInt
             /\ ~(/\ handlers[h].row.category_id \in CategoryIds
                  /\ categories[handlers[h].row.category_id].exists)
             /\ handlers'[h] # handlers[h]) =>
                /\ handlers'[h].pc = "done"
                /\ handlers'[h].result = 404]_vars
    /\ [][\A h \in HandlerSlots :
            (/\ handlers[h].op = "delete_category"
             /\ ~handlers[h].committed
             /\ handlers'[h].committed) =>
                /\ ~categories'[handlers[h].category_id].exists
                /\ \A p \in ProductIds :
                      products'[p] =
                          IF products[p].exists
                             /\ products[p].category_id = handlers[h].category_id
                          THEN [products[p] EXCEPT !.category_id = NoneInt]
                          ELSE products[p]]_vars
    /\ [](\A h \in HandlerSlots :
            (handlers[h].op = "delete_category" /\ handlers[h].pc = "done"
               /\ handlers[h].result = 200) =>
                handlers[h].published =
                    <<[type |-> "category_deleted",
                       category_id |-> handlers[h].category_id]>>)

\* C28: with create_category and update_category requests racing, no two
\* stored categories have the same name, a request has called broadcast only
\* if its commit went through, and a broadcast in flight for a request is the
\* one that request committed and is waiting for.
C28_NamesUniqueUnderRaces ==
    /\ \A i, j \in CategoryIds :
          (i # j /\ categories[i].exists /\ categories[j].exists) =>
              categories[i].name # categories[j].name
    /\ \A h \in RacingSlots :
          /\ handlers[h].published # <<>> => handlers[h].committed
          /\ Len(handlers[h].published) <= 1
          /\ \A b \in BroadcastSlots :
                (bcast[b].caller = Task(h) /\ bcast[b].pc \notin {"idle", "done"}) =>
                    /\ handlers[h].committed
                    /\ handlers[h].pc = "broadcast"
                    /\ handlers[h].published = <<bcast[b].message>>

\* an update_category and a create_category both found the name free; the
\* one that committed second failed on the unique name and broadcast nothing
C28_LoserOfRace ==
    \E g, h \in RacingSlots :
        /\ handlers[g].op = "update_category"
        /\ handlers[h].op = "create_category"
        /\ \E x \in {g, h}, y \in {g, h} :
              /\ x # y
              /\ handlers[x].pc = "done"
              /\ handlers[x].result = 500
              /\ handlers[x].error = "IntegrityError"
              /\ handlers[x].published = <<>>
              /\ handlers[y].committed
              /\ handlers[y].published # <<>>

=============================================================================
